---- MODULE Spec2Model ----
(***************************************************************************)
(* Verification model of ppipada/mapstore-go.                              *)
(*                                                                         *)
(* Part I  (SpecOCC): two MapFileStore objects opened on the same backing  *)
(* file, every file-system call of NewMapFileStore, flushUnlocked, load,   *)
(* GetAll(forceFetch), SetAll and DeleteFile being one step, so that the   *)
(* steps of the two stores interleave in every order.                      *)
(*                                                                         *)
(* Environment: os.Stat identifies a file by inode, size and modification  *)
(* time.  A newly created file gets an inode no file of the run has had;   *)
(* every document of the model encodes to the same number of bytes and     *)
(* every write falls into the same tick of the file system's clock, so     *)
(* that the inode is what tells two versions of the file apart.            *)
(*                                                                         *)
(* Part II (SpecHeap): the document of one store as Go map objects on a    *)
(* heap, with the maputil functions and the copies GetAll and GetKey hand  *)
(* to the caller.                                                          *)
(* Part III (SpecStore): the public operations of one store as whole       *)
(* calls, with its listeners and the events they receive.                  *)
(* Part IV (SpecConc): goroutines calling SetKey on one store, the event   *)
(* being fired after the store's mutex is released.                        *)
(* Part V (SpecCodec): the key and value codecs applied on flush and load. *)
(* Part VI (SpecDir): the cache of open stores of a MapDirectoryStore.     *)
(* Part VII (SpecList): the pages of MapDirectoryStore.ListFiles.           *)
(* Part VIII (SpecEngine): goroutines writing to one ftsengine.Engine.     *)
(* Part IX (SpecPage): the pages of Engine.BatchList and Engine.Search.    *)
(* Part X (SpecSync): passes of SyncIterToFTS over one index.              *)
(* Part XI (SpecSchema): engines opened one after the other on one         *)
(* database, with the schema checksum of bootstrap.                        *)
(* Part XII (SpecFlush): goroutines calling Flush and other operations on  *)
(* one store.                                                              *)
(* Part XIII (SpecEvent): goroutines calling the mutating operations of a  *)
(* store whose listener reads the store.                                   *)
(* Part XIV (SpecCopy): the values given to SetKey and SetAll and what the *)
(* caller does to them afterwards.                                         *)
(* Part XV (SpecPath): SetKey on every path over a small set of keys.      *)
(* Part XVI (SpecWalk): passes of SyncDirToFTS over sibling directories.   *)
(* Part XVII (SpecQuery): the match expression of Engine.Search.           *)
(*                                                                         *)
(* Each part has its own variables and its own specification; the          *)
(* variables of the other parts keep their initial values.                 *)
(***************************************************************************)
EXTENDS Integers, Sequences, FiniteSets, TLC

VARIABLES
    file,       \* the backing file: [exists, ino, mtime, content]
    tmp,        \* tmp[s]: the temp file "<filename>.tmp-<nanos>" of store s
    nextIno,    \* number of inodes handed out so far
    data,       \* store.data
    lastStat,   \* store.lastStat (NoStat = nil)
    autoFlush,  \* store.autoFlush
    pc,         \* position of the thread that uses store s
    op,         \* the public operation store s is executing
    arg,        \* the document given to SetAll
    attempts,   \* iterations of SetAll's retry loop started so far
    res,        \* what the last finished operation of store s returned
    flushes,    \* ghost: calls of flushUnlocked the current operation of s has made
    fired,      \* ghost: events the current operation of s has fired
    stale,      \* ghost: another store replaced the file after s last recorded a snapshot
    phase,      \* ghost: [who, n]: store who met a conflict (1), reloaded (2), flushed (3)
    clobber,    \* ghost: the rename of s's flush replaced a file other than the one s checked
    observed    \* ghost: the inode of the file version the current operation of s last wrote or read (0 = none)

occVars == <<file, tmp, nextIno, data, lastStat, autoFlush, pc, op, arg, attempts,
             res, flushes, fired, stale, phase, clobber, observed>>

VARIABLES
    heap,       \* the Go heap: heap[a] is the map[string]any at address a
    root,       \* store.data: the address of the store's top-level map
    got,        \* the value the caller holds: what GetAll or GetKey last returned
    hdisk,      \* the document encoded in the file
    dflt        \* store.defaultData: the address of the defaults (0 = nil)

heapVars == <<heap, root, got, hdisk, dflt>>

VARIABLES
    sfile,      \* the file of the store of Part III: [exists, ino]; its content is hdisk
    slast,      \* store.lastStat of that store
    sauto,      \* store.autoFlush
    listeners,  \* store.listeners
    delivered,  \* the calls of listeners the last operation made, in order
    sret        \* the last operation and what it returned: [op, err]

storeVars == <<sfile, slast, sauto, listeners, delivered, sret>>

VARIABLES
    cmu,        \* store.mu of the store of Part IV: the goroutine that holds it, or "none"
    cpc,        \* cpc[t]: where goroutine t is in its call of SetKey
    cval,       \* the value store.data holds at the key (0 = no entry)
    cold,       \* cold[t]: oldVal, as setKey returned it to goroutine t
    clog,       \* the events the listener has received, in the order of its calls
    capplied    \* ghost: the goroutines in the order in which their mutations were applied

concVars == <<cmu, cpc, cval, cold, clog, capplied>>

VARIABLES
    kdoc,       \* store.data of the store of Part V, as a tree
    kin,        \* ghost: the document the store held before the flush
    kfile,      \* the content of its file
    kkeys,      \* store.getKeyEncDec: the key codec provider
    kvals,      \* store.getValueEncDec: the value codec provider
    kphase      \* "new", "flushed", "loaded" or "failed" (load returned an error)

codecVars == <<kdoc, kin, kfile, kkeys, kvals, kphase>>

VARIABLES
    openStores, \* mds.openStores of the directory store of Part VI: the entries [path, store]
    openMu,     \* mds.openMu: the goroutine that holds it, or "none"
    dpc,        \* dpc[t]: where goroutine t is in its call
    dop,        \* dop[t]: the call: [name, path, createIfNotExists]
    dstore,     \* dstore[t]: the store OpenFile has given to goroutine t (0 = none)
    nextStore,  \* number of MapFileStore objects constructed so far
    dloaded,    \* dloaded[i]: the version of the file that store i holds in memory
    snap,       \* snap[i]: the version store i remembers in lastStat (0 = nil)
    ddisk,      \* ddisk[p]: the version of the file at path p (0 = no file)
    nextVer,    \* number of file versions written so far
    handed      \* ghost: handed[p]: the stores OpenFile has returned for p since p was last evicted

dirVars == <<openStores, openMu, dpc, dop, dstore, nextStore, dloaded, snap, ddisk, nextVer,
             handed>>

VARIABLES
    ltree,      \* the directory tree of Part VII: ltree[partition] = its file names, Missing or Unreadable
    lprov,      \* mds.partitionProvider
    lcfg,       \* the ListingConfig of the listing
    lstart,     \* the page token the first ListFiles call of the listing is given
    ltoken,     \* the page token the next ListFiles call is given
    lout,       \* the entries the calls of the listing have returned so far
    lpages,     \* for every call so far: [n: entries returned, more: a token was returned]
    lphase      \* "listing"; "done" (empty token); "error"; "panic"

listVars == <<ltree, lprov, lcfg, lstart, ltoken, lout, lpages, lphase>>

VARIABLES
    etable,     \* the rows of the FTS table of Parts VIII to X: [rid, id, cmp, val]
    emu,        \* e.mu of the Engine: the goroutine that holds it, or "none"
    epc,        \* epc[t]: where goroutine t is in its call on the engine
    eop,        \* eop[t]: the call: [name, docs, ids, rowid]
    eres        \* eres[t]: what the last call of t returned: "none", "ok", "error"

engineVars == <<etable, emu, epc, eop, eres>>


VARIABLES
    pkind,      \* the paged call of Part IX: "BatchList" or "Search"
    pcol,       \* the compareColumn given to BatchList
    psize,      \* the pageSize given to every call
    pstart,     \* the token the first call is given
    ptoken,     \* the token the next call is given
    pout,       \* the rows the calls have returned so far
    ppages,     \* for every call so far: [n: rows returned, more: a token was returned]
    pphase      \* "paging" or "done" (empty token)

pageVars == <<pkind, pcol, psize, pstart, ptoken, pout, ppages, pphase>>


VARIABLES
    sprod,      \* the producer whose SyncIterToFTS pass of Part X is running or ran last
    sbatch,     \* the batchSize given to the pass
    spc,        \* "idle"; "iter": the iterator runs; "delete": before the deletion; "done"; "failed"
    existing,   \* existing: the [id, cmp] pairs read from the index when the pass began
    seenNow,    \* seenNow: the ids emitted in the pass that were not skipped
    pending,    \* pending: the documents waiting for the next BatchUpsert
    semitted,   \* ghost: the decisions the iterator has emitted in the pass
    sbefore,    \* ghost: the table when the pass began
    swrites,    \* ghost: swrites[id]: how often the pass has given id to BatchUpsert
    spasses     \* number of passes begun so far

syncVars == <<sprod, sbatch, spc, existing, seenNow, pending, semitted, sbefore, swrites, spasses>>


VARIABLES
    xmeta,      \* the row k='h' of the meta table of the database of Part XI (NoHash = no row)
    xtables,    \* xtables[t]: the virtual table named t: [exists, cols, rows]
    xcfg,       \* Engine.cfg of the open engine (NoConfig = no engine is open)
    xerr,       \* what the last call returned
    xphase,     \* "closed"; "opened": NewEngine has returned and nothing was written since; "used"
    xprev,      \* ghost: [cfg, rows]: the engine closed last and the rows it could see then
    xseen,      \* ghost: the kinds of reopening the run has made: "changed", "unchanged"
    xopens      \* number of calls of NewEngine so far

schemaVars == <<xmeta, xtables, xcfg, xerr, xphase, xprev, xseen, xopens>>


VARIABLES
    fmu,        \* store.mu of the store of Part XII: [w: the goroutine that holds the write lock or "none", r: the goroutines that hold a read lock]
    fpc,        \* fpc[t]: where goroutine t is in its call
    fop,        \* fop[t]: the operation goroutine t is in or was in last
    fres,       \* fres[t]: what the last operation of t returned
    ffile,      \* the inode of the backing file (0 = no file)
    ftmp,       \* ftmp[t]: the inode of the temp file of the flush of t (0 = none)
    flast,      \* store.lastStat: the inode it remembers (0 = nil)
    freload,    \* freload[t]: GetAll(forceFetch) of t found the file changed
    fnextIno    \* number of inodes handed out so far

flushVars == <<fmu, fpc, fop, fres, ffile, ftmp, flast, freload, fnextIno>>



VARIABLES
    vmu,        \* store.mu of the store of Part XIII: [w: the goroutine that holds the write lock or "none", r: the goroutines that hold a read lock]
    vpc,        \* vpc[t]: where goroutine t is in its call
    vop,        \* vop[t]: the operation goroutine t is in or was in last
    vlistener,  \* what the store's listener does with an event: "nothing", or the read it calls on the store
    vevents,    \* vevents[t]: the events the listener has handled in calls of t
    vcalls      \* vcalls[t]: calls goroutine t has begun so far

eventVars == <<vmu, vpc, vop, vlistener, vevents, vcalls>>



VARIABLES
    wheap,      \* the Go heap of Part XIV: wheap[a] is the map[string]any at address a
    wroot,      \* store.data: the address of the store's top-level map
    warg        \* the value the caller built and passes to SetKey and SetAll

copyVars == <<wheap, wroot, warg>>



VARIABLES
    zheap,      \* the Go heap of Part XV: the store's document, its top-level map at address 1
    zin,        \* ghost: the heap when SetKey was called
    zkeys,      \* the path given to SetKey
    zerr        \* what SetKey returned: "pending" before the call, "none" for nil, or the error

pathVars == <<zheap, zin, zkeys, zerr>>



VARIABLES
    qindex,     \* the ids of the rows of the index of Part XVI; an id is the path of a file
    qfiles,     \* the files on disk
    qbase,      \* the baseDir of the pass of SyncDirToFTS made last
    qbefore,    \* ghost: the ids in the index when that pass began
    qpasses     \* number of passes made so far

walkVars == <<qindex, qfiles, qbase, qbefore, qpasses>>



VARIABLES
    uquery,     \* the query given to Search in Part XVII
    uexpr,      \* the argument bound to MATCH in that call (empty: no SQL was run)
    uout        \* how the call ended: "none", "error", "empty" or "sql"

queryVars == <<uquery, uexpr, uout>>


nonOccVars == <<heapVars, storeVars, concVars, codecVars, dirVars, listVars, engineVars, pageVars, syncVars, schemaVars, flushVars, eventVars, copyVars, pathVars, walkVars, queryVars>>
nonHeapVars == <<occVars, storeVars, concVars, codecVars, dirVars, listVars, engineVars, pageVars, syncVars, schemaVars, flushVars, eventVars, copyVars, pathVars, walkVars, queryVars>>
nonStoreVars == <<occVars, concVars, codecVars, dirVars, listVars, engineVars, pageVars, syncVars, schemaVars, flushVars, eventVars, copyVars, pathVars, walkVars, queryVars>>
nonConcVars == <<occVars, heapVars, storeVars, codecVars, dirVars, listVars, engineVars, pageVars, syncVars, schemaVars, flushVars, eventVars, copyVars, pathVars, walkVars, queryVars>>
nonCodecVars == <<occVars, heapVars, storeVars, concVars, dirVars, listVars, engineVars, pageVars, syncVars, schemaVars, flushVars, eventVars, copyVars, pathVars, walkVars, queryVars>>
nonDirVars == <<occVars, heapVars, storeVars, concVars, codecVars, listVars, engineVars, pageVars, syncVars, schemaVars, flushVars, eventVars, copyVars, pathVars, walkVars, queryVars>>
nonListVars == <<occVars, heapVars, storeVars, concVars, codecVars, dirVars, engineVars, pageVars, syncVars, schemaVars, flushVars, eventVars, copyVars, pathVars, walkVars, queryVars>>
nonEngineVars == <<occVars, heapVars, storeVars, concVars, codecVars, dirVars, listVars, pageVars, syncVars, schemaVars, flushVars, eventVars, copyVars, pathVars, walkVars, queryVars>>
nonPageVars == <<occVars, heapVars, storeVars, concVars, codecVars, dirVars, listVars, engineVars, syncVars, schemaVars, flushVars, eventVars, copyVars, pathVars, walkVars, queryVars>>
nonSyncVars == <<occVars, heapVars, storeVars, concVars, codecVars, dirVars, listVars, engineVars, pageVars, schemaVars, flushVars, eventVars, copyVars, pathVars, walkVars, queryVars>>
nonSyncTableVars == <<emu, epc, eop, eres, occVars, heapVars, storeVars, concVars, codecVars, dirVars, listVars, pageVars, schemaVars, flushVars, eventVars, copyVars, pathVars, walkVars, queryVars>>
nonSchemaVars == <<occVars, heapVars, storeVars, concVars, codecVars, dirVars, listVars, engineVars, pageVars, syncVars, flushVars, eventVars, copyVars, pathVars, walkVars, queryVars>>
nonFlushVars == <<occVars, heapVars, storeVars, concVars, codecVars, dirVars, listVars, engineVars, pageVars, syncVars, schemaVars, eventVars, copyVars, pathVars, walkVars, queryVars>>
nonEventVars == <<occVars, heapVars, storeVars, concVars, codecVars, dirVars, listVars, engineVars, pageVars, syncVars, schemaVars, flushVars, copyVars, pathVars, walkVars, queryVars>>
nonCopyVars == <<occVars, heapVars, storeVars, concVars, codecVars, dirVars, listVars, engineVars, pageVars, syncVars, schemaVars, flushVars, eventVars, pathVars, walkVars, queryVars>>
nonPathVars == <<occVars, heapVars, storeVars, concVars, codecVars, dirVars, listVars, engineVars, pageVars, syncVars, schemaVars, flushVars, eventVars, copyVars, walkVars, queryVars>>
nonWalkVars == <<occVars, heapVars, storeVars, concVars, codecVars, dirVars, listVars, engineVars, pageVars, syncVars, schemaVars, flushVars, eventVars, copyVars, pathVars, queryVars>>
nonQueryVars == <<occVars, heapVars, storeVars, concVars, codecVars, dirVars, listVars, engineVars, pageVars, syncVars, schemaVars, flushVars, eventVars, copyVars, pathVars, walkVars>>

vars == <<occVars, heapVars, storeVars, concVars, codecVars, dirVars, listVars, engineVars, pageVars, syncVars, schemaVars, flushVars, eventVars, copyVars, pathVars, walkVars, queryVars>>

(***************************************************************************)
(* Bounds.                                                                 *)
(***************************************************************************)
MaxIno == 5
MaxDoc == 1

maxSetAllRetries == 3

Stores == {"s1", "s2"}

\* Documents are abstract here: 0 is the empty mapping, DefaultData the defaults given at Open.
DocVals == 0 .. MaxDoc
EmptyDoc == 0
DefaultData == 1

\* The file codec: a document encodes to a non-empty byte string; 0 is the file of zero bytes.
EmptyContent == 0
Encode(d) == d + 1
Decode(c) == c - 1
Decodable(c) == c # EmptyContent
Size(c) == IF c = EmptyContent THEN 0 ELSE 1

NoFile == [exists |-> FALSE, ino |-> 0, mtime |-> 0, content |-> EmptyContent]
NoStat == [ok |-> FALSE, ino |-> 0, size |-> 0, mtime |-> 0]

\* os.Stat
Stat(f) ==
    IF f.exists
    THEN [ok |-> TRUE, ino |-> f.ino, size |-> Size(f.content), mtime |-> f.mtime]
    ELSE NoStat

\* os.Create / os.OpenFile(O_CREATE): a new file with a fresh inode.
NewFile(c) == [exists |-> TRUE, ino |-> nextIno + 1, mtime |-> 0, content |-> c]

IsSameFileInfoSizeOnly(a, b) ==
    a.ok /\ b.ok /\ a.size = b.size /\ a.mtime = b.mtime

isSameFileInfo(a, b) ==
    a.ok /\ b.ok /\ a.ino = b.ino /\ a.size = b.size /\ a.mtime = b.mtime

Other(s) == CHOOSE t \in Stores : t # s

\* Both stores are opened with the default option, autoFlush on.
AutoFlushChoices == {TRUE}

FlushOps == {"SetKey", "DeleteKey", "Reset", "Flush"}

(***************************************************************************)
(* Returning from an operation.                                            *)
(***************************************************************************)
\* SetAll, SetKey, DeleteKey, Reset and DeleteFile call fireEvent once, after their
\* work succeeded; Flush, GetAll and NewMapFileStore never do.
Fires(o) == o \in {"SetAll", "SetKey", "DeleteKey", "Reset", "DeleteFile"}

\* The operation o of store s returns r to its caller.
Return(s, o, r) ==
    /\ pc' = [pc EXCEPT ![s] = "done"]
    /\ res' = [res EXCEPT ![s] = r]
    /\ fired' = [fired EXCEPT ![s] = IF r = "ok" /\ Fires(o) THEN 1 ELSE 0]

Goto(s, l) ==
    /\ pc' = [pc EXCEPT ![s] = l]
    /\ res' = [res EXCEPT ![s] = "pending"]
    /\ fired' = [fired EXCEPT ![s] = 0]

\* flushUnlocked is entered.
EnterFlush(s) ==
    /\ Goto(s, "flush_check")
    /\ flushes' = [flushes EXCEPT ![s] = @ + 1]

(***************************************************************************)
(* NewMapFileStore: createFileIfNotExists, load, rememberStat.             *)
(***************************************************************************)
\* A new store object; createFileIfNotExists stats the file.
OpenStat(s, createIfNotExists, af) ==
    /\ pc[s] = "closed"
    /\ op' = [op EXCEPT ![s] = "Open"]
    /\ data' = [data EXCEPT ![s] = EmptyDoc]
    /\ lastStat' = [lastStat EXCEPT ![s] = NoStat]
    /\ autoFlush' = [autoFlush EXCEPT ![s] = af]
    /\ flushes' = [flushes EXCEPT ![s] = 0]
    /\ stale' = [stale EXCEPT ![s] = FALSE]
    /\ clobber' = [clobber EXCEPT ![s] = FALSE]
    /\ UNCHANGED phase
    /\ IF Stat(file).ok
       THEN Goto(s, "load_read")
       ELSE IF createIfNotExists
            THEN Goto(s, "open_create")
            ELSE Return(s, "Open", "error")
    /\ UNCHANGED <<file, tmp, nextIno, arg, attempts>>
    /\ observed' = [observed EXCEPT ![s] = 0]
    /\ UNCHANGED nonOccVars

\* os.OpenFile(O_CREATE|O_EXCL): an empty file; then the defaults are flushed.
OpenCreate(s) ==
    /\ pc[s] = "open_create"
    /\ IF file.exists
       THEN /\ Goto(s, "load_read")
            /\ UNCHANGED <<file, nextIno, data, flushes>>
       ELSE /\ nextIno < MaxIno
            /\ file' = NewFile(EmptyContent)
            /\ nextIno' = nextIno + 1
            /\ data' = [data EXCEPT ![s] = DefaultData]
            /\ EnterFlush(s)
    /\ UNCHANGED <<tmp, lastStat, autoFlush, op, arg, attempts, stale, phase, clobber>>
    /\ UNCHANGED observed
    /\ UNCHANGED nonOccVars

\* The second rememberStat of NewMapFileStore.
OpenRemember(s) ==
    /\ pc[s] = "open_remember"
    /\ IF Stat(file).ok
       THEN /\ lastStat' = [lastStat EXCEPT ![s] = Stat(file)]
            /\ stale' = [stale EXCEPT ![s] = FALSE]
            /\ Return(s, "Open", "ok")
       ELSE /\ Return(s, "Open", "error")
            /\ UNCHANGED <<lastStat, stale>>
    /\ UNCHANGED <<file, tmp, nextIno, data, autoFlush, op, arg, attempts, flushes,
                   phase, clobber>>
    /\ UNCHANGED observed
    /\ UNCHANGED nonOccVars

(***************************************************************************)
(* flushUnlocked.                                                          *)
(***************************************************************************)
FlushFailedNoRetry(s, r) == Return(s, op[s], r)

\* What the caller of flushUnlocked does with an error: SetAll reloads after a
\* conflict, everything else returns the error.
FlushFailed(s, r) ==
    IF op[s] = "SetAll" /\ r = "conflict"
    THEN Goto(s, "load_read")
    ELSE Return(s, op[s], r)

\* The optimistic check: stat the file and compare with store.lastStat.
FlushCheck(s) ==
    /\ pc[s] = "flush_check"
    /\ LET cur == Stat(file)
           conflict == IF lastStat[s].ok
                       THEN IF cur.ok THEN ~isSameFileInfo(cur, lastStat[s]) ELSE TRUE
                       ELSE FALSE
       IN  IF conflict
           THEN /\ FlushFailed(s, "conflict")
                /\ phase' = IF phase.n = 0 /\ stale[s] /\ lastStat[s].ok /\ op[s] \in FlushOps
                            THEN [who |-> s, n |-> 1]
                            ELSE phase
           ELSE /\ Goto(s, "flush_write")
                /\ UNCHANGED phase
    /\ UNCHANGED <<file, tmp, nextIno, data, lastStat, autoFlush, op, arg, attempts,
                   flushes, stale, clobber>>
    /\ UNCHANGED observed
    /\ UNCHANGED nonOccVars

\* os.Create(tmpName) and Encode into it.
FlushWrite(s) ==
    /\ pc[s] = "flush_write"
    /\ nextIno < MaxIno
    /\ tmp' = [tmp EXCEPT ![s] = NewFile(Encode(data[s]))]
    /\ nextIno' = nextIno + 1
    /\ Goto(s, "flush_rename")
    /\ UNCHANGED <<file, data, lastStat, autoFlush, op, arg, attempts, flushes, stale,
                   phase, clobber>>
    /\ UNCHANGED observed
    /\ UNCHANGED nonOccVars

\* os.Rename(tmpName, filename).
FlushRename(s) ==
    /\ pc[s] = "flush_rename"
    /\ file' = tmp[s]
    /\ tmp' = [tmp EXCEPT ![s] = NoFile]
    /\ stale' = [t \in Stores |-> IF t = s THEN stale[t] ELSE TRUE]
    /\ clobber' = [clobber EXCEPT ![s] =
                       /\ lastStat[s].ok
                       /\ file.exists
                       /\ Decodable(file.content)
                       /\ ~isSameFileInfo(Stat(file), lastStat[s])]
    /\ Goto(s, "flush_stat")
    /\ UNCHANGED <<nextIno, data, lastStat, autoFlush, op, arg, attempts, flushes, phase>>
    /\ observed' = [observed EXCEPT ![s] = tmp[s].ino]
    /\ UNCHANGED nonOccVars

\* rememberStat at the end of flushUnlocked, and what the caller does next.
FlushStat(s) ==
    /\ pc[s] = "flush_stat"
    /\ IF Stat(file).ok
       THEN /\ lastStat' = [lastStat EXCEPT ![s] = Stat(file)]
            /\ stale' = [stale EXCEPT ![s] = FALSE]
            /\ phase' = IF phase = [who |-> s, n |-> 2] /\ op[s] \in FlushOps
                        THEN [who |-> s, n |-> 3]
                        ELSE phase
            /\ IF op[s] = "Open"
               THEN Goto(s, "load_read")
               ELSE Return(s, op[s], "ok")
       ELSE /\ FlushFailed(s, "error")
            /\ UNCHANGED <<lastStat, stale, phase>>
    /\ UNCHANGED <<file, tmp, nextIno, data, autoFlush, op, arg, attempts, flushes, clobber>>
    /\ UNCHANGED observed
    /\ UNCHANGED nonOccVars

(***************************************************************************)
(* load.                                                                   *)
(***************************************************************************)
\* What the caller of load does with an error.
LoadFailed(s) == Return(s, op[s], "error")

\* os.Open and Decode: store.data is emptied, then filled from the file.
LoadRead(s) ==
    /\ pc[s] = "load_read"
    /\ IF ~file.exists
       THEN LoadFailed(s) /\ UNCHANGED data
       ELSE IF ~Decodable(file.content)
            THEN LoadFailed(s) /\ data' = [data EXCEPT ![s] = EmptyDoc]
            ELSE Goto(s, "load_stat") /\ data' = [data EXCEPT ![s] = Decode(file.content)]
    /\ UNCHANGED <<file, tmp, nextIno, lastStat, autoFlush, op, arg, attempts, flushes,
                   stale, phase, clobber>>
    /\ observed' = [observed EXCEPT ![s] = IF file.exists /\ Decodable(file.content) THEN file.ino ELSE @]
    /\ UNCHANGED nonOccVars

\* rememberStat at the end of load, and what the caller does next.
LoadStat(s) ==
    /\ pc[s] = "load_stat"
    /\ IF Stat(file).ok
       THEN /\ lastStat' = [lastStat EXCEPT ![s] = Stat(file)]
            /\ stale' = [stale EXCEPT ![s] = FALSE]
            /\ phase' = IF phase = [who |-> s, n |-> 1] /\ op[s] = "GetAll"
                        THEN [who |-> s, n |-> 2]
                        ELSE phase
            /\ CASE op[s] = "Open" -> Goto(s, "open_remember")
                 [] op[s] = "SetAll" ->
                        IF attempts[s] < maxSetAllRetries
                        THEN Goto(s, "setall_attempt")
                        ELSE Return(s, "SetAll", "conflict")
                 [] OTHER -> Return(s, op[s], "ok")
       ELSE /\ LoadFailed(s)
            /\ UNCHANGED <<lastStat, stale, phase>>
    /\ UNCHANGED <<file, tmp, nextIno, data, autoFlush, op, arg, attempts, flushes, clobber>>
    /\ UNCHANGED observed
    /\ UNCHANGED nonOccVars

(***************************************************************************)
(* The public operations of an open store.                                 *)
(***************************************************************************)
\* The caller has the result; the operation's parameters and locals are gone.
\* NewMapFileStore hands out the store only when it succeeds.
Returned(s) ==
    /\ pc[s] = "done"
    /\ pc' = [pc EXCEPT ![s] = IF op[s] = "Open" /\ res[s] # "ok" THEN "closed" ELSE "idle"]
    /\ op' = [op EXCEPT ![s] = "none"]
    /\ res' = [res EXCEPT ![s] = "none"]
    /\ arg' = [arg EXCEPT ![s] = EmptyDoc]
    /\ attempts' = [attempts EXCEPT ![s] = 0]
    /\ flushes' = [flushes EXCEPT ![s] = 0]
    /\ fired' = [fired EXCEPT ![s] = 0]
    /\ clobber' = [clobber EXCEPT ![s] = FALSE]
    /\ UNCHANGED <<file, tmp, nextIno, data, lastStat, autoFlush, stale, phase>>
    /\ observed' = [observed EXCEPT ![s] = 0]
    /\ UNCHANGED nonOccVars

StartOp(s, o) ==
    /\ pc[s] = "idle"
    /\ op' = [op EXCEPT ![s] = o]

\* SetKey and DeleteKey: the document becomes d; flushed when autoFlush is on.
SetOrDeleteKey(s, o, d) ==
    /\ StartOp(s, o)
    /\ data' = [data EXCEPT ![s] = d]
    /\ IF autoFlush[s]
       THEN /\ Goto(s, "flush_check")
            /\ flushes' = [flushes EXCEPT ![s] = 1]
       ELSE /\ Return(s, o, "ok")
            /\ flushes' = [flushes EXCEPT ![s] = 0]
    /\ UNCHANGED <<file, tmp, nextIno, lastStat, autoFlush, arg, attempts, stale, phase,
                   clobber>>
    /\ UNCHANGED observed
    /\ UNCHANGED nonOccVars

\* Reset: the document becomes the defaults and is flushed unconditionally.
Reset(s) ==
    /\ StartOp(s, "Reset")
    /\ data' = [data EXCEPT ![s] = DefaultData]
    /\ Goto(s, "flush_check")
    /\ flushes' = [flushes EXCEPT ![s] = 1]
    /\ UNCHANGED <<file, tmp, nextIno, lastStat, autoFlush, arg, attempts, stale, phase,
                   clobber>>
    /\ UNCHANGED observed
    /\ UNCHANGED nonOccVars

Flush(s) ==
    /\ StartOp(s, "Flush")
    /\ Goto(s, "flush_check")
    /\ flushes' = [flushes EXCEPT ![s] = 1]
    /\ UNCHANGED <<file, tmp, nextIno, data, lastStat, autoFlush, arg, attempts, stale,
                   phase, clobber>>
    /\ UNCHANGED observed
    /\ UNCHANGED nonOccVars

\* SetAll(d) enters its retry loop.
SetAll(s, d) ==
    /\ StartOp(s, "SetAll")
    /\ arg' = [arg EXCEPT ![s] = d]
    /\ attempts' = [attempts EXCEPT ![s] = 0]
    /\ flushes' = [flushes EXCEPT ![s] = 0]
    /\ Goto(s, "setall_attempt")
    /\ UNCHANGED <<file, tmp, nextIno, data, lastStat, autoFlush, stale, phase, clobber>>
    /\ UNCHANGED observed
    /\ UNCHANGED nonOccVars

\* One iteration of the loop: setAll replaces the document and flushes it.
setAll(s) ==
    /\ pc[s] = "setall_attempt"
    /\ attempts' = [attempts EXCEPT ![s] = @ + 1]
    /\ data' = [data EXCEPT ![s] = arg[s]]
    /\ IF autoFlush[s]
       THEN EnterFlush(s)
       ELSE Return(s, "SetAll", "ok") /\ UNCHANGED flushes
    /\ UNCHANGED <<file, tmp, nextIno, lastStat, autoFlush, op, arg, stale, phase, clobber>>
    /\ UNCHANGED observed
    /\ UNCHANGED nonOccVars

\* GetAll(forceFetch = true): stat, and reload when the file is not the one remembered.
GetAll(s) ==
    /\ StartOp(s, "GetAll")
    /\ flushes' = [flushes EXCEPT ![s] = 0]
    /\ LET cur == Stat(file)
       IN  IF ~cur.ok
           THEN Return(s, "GetAll", "error")
           ELSE IF ~isSameFileInfo(cur, lastStat[s])
                THEN Goto(s, "load_read")
                ELSE Return(s, "GetAll", "ok")
    /\ UNCHANGED <<file, tmp, nextIno, data, lastStat, autoFlush, arg, attempts, stale,
                   phase, clobber>>
    /\ UNCHANGED observed
    /\ UNCHANGED nonOccVars

\* DeleteFile: the snapshot check.
DeleteFile(s) ==
    /\ StartOp(s, "DeleteFile")
    /\ flushes' = [flushes EXCEPT ![s] = 0]
    /\ LET cur == Stat(file)
       IN  IF lastStat[s].ok /\ cur.ok /\ ~isSameFileInfo(cur, lastStat[s])
           THEN Return(s, "DeleteFile", "conflict")
           ELSE Goto(s, "delete_remove")
    /\ UNCHANGED <<file, tmp, nextIno, data, lastStat, autoFlush, arg, attempts, stale,
                   phase, clobber>>
    /\ UNCHANGED observed
    /\ UNCHANGED nonOccVars

\* DeleteFile: os.Remove, then the snapshot and the document are cleared.
DeleteRemove(s) ==
    /\ pc[s] = "delete_remove"
    /\ file' = NoFile
    /\ lastStat' = [lastStat EXCEPT ![s] = NoStat]
    /\ data' = [data EXCEPT ![s] = EmptyDoc]
    /\ stale' = [t \in Stores |-> IF t = s THEN FALSE ELSE stale[t] \/ file.exists]
    /\ Return(s, "DeleteFile", "ok")
    /\ UNCHANGED <<tmp, nextIno, autoFlush, op, arg, attempts, flushes, phase, clobber>>
    /\ UNCHANGED observed
    /\ UNCHANGED nonOccVars

(***************************************************************************)
(* Specification.                                                          *)
(***************************************************************************)
InitOCC ==
    /\ file = NoFile
    /\ tmp = [s \in Stores |-> NoFile]
    /\ nextIno = 0
    /\ data = [s \in Stores |-> EmptyDoc]
    /\ lastStat = [s \in Stores |-> NoStat]
    /\ autoFlush = [s \in Stores |-> TRUE]
    /\ pc = [s \in Stores |-> "closed"]
    /\ op = [s \in Stores |-> "none"]
    /\ arg = [s \in Stores |-> EmptyDoc]
    /\ attempts = [s \in Stores |-> 0]
    /\ res = [s \in Stores |-> "none"]
    /\ flushes = [s \in Stores |-> 0]
    /\ fired = [s \in Stores |-> 0]
    /\ stale = [s \in Stores |-> FALSE]
    /\ phase = [who |-> "s1", n |-> 0]
    /\ clobber = [s \in Stores |-> FALSE]
    /\ observed = [s \in Stores |-> 0]

NextOCC ==
    \E s \in Stores :
        \/ \E c \in BOOLEAN, af \in AutoFlushChoices : OpenStat(s, c, af)
        \/ OpenCreate(s)
        \/ OpenRemember(s)
        \/ Returned(s)
        \/ FlushCheck(s)
        \/ FlushWrite(s)
        \/ FlushRename(s)
        \/ FlushStat(s)
        \/ LoadRead(s)
        \/ LoadStat(s)
        \/ \E o \in {"SetKey", "DeleteKey"}, d \in DocVals : SetOrDeleteKey(s, o, d)
        \/ Reset(s)
        \/ Flush(s)
        \/ \E d \in DocVals : SetAll(s, d)
        \/ setAll(s)
        \/ GetAll(s)
        \/ DeleteFile(s)
        \/ DeleteRemove(s)


(***************************************************************************)
(* Claims checked under SpecOCC.                                           *)
(***************************************************************************)
\* The step is the optimistic check of a flush that SetKey, DeleteKey, Reset or
\* Flush of store s makes.
IsFlushCheckStep(s) ==
    /\ pc[s] = "flush_check"
    /\ pc'[s] # "flush_check"
    /\ op[s] \in FlushOps

ConflictAndFileUntouched(s) ==
    /\ pc'[s] = "done"
    /\ res'[s] = "conflict"
    /\ file' = file
    /\ tmp' = tmp

\* C1 as stated: once another store has replaced the file and is at rest, every
\* flush that SetKey, DeleteKey, Reset or Flush of a store attempts fails with
\* FileConflict and leaves the file unchanged until the store records the file
\* again; a flush of a store whose snapshot is current passes the check.
C1_Original ==
    [][\A s \in Stores :
          (IsFlushCheckStep(s) /\ pc[Other(s)] = "idle") =>
              IF stale[s]
              THEN ConflictAndFileUntouched(s)
              ELSE lastStat[s].ok => pc'[s] = "flush_write"]_vars

\* C1 (amended): a store that holds a snapshot recorded before another store's flush
\* replaced the file gets FileConflict from every flush that SetKey, DeleteKey, Reset
\* or Flush attempts, and the file and the temp files are left as they were; a flush
\* of a store whose snapshot is current passes the check and goes on to write.
C1_StaleSnapshotConflicts ==
    [][\A s \in Stores :
          (IsFlushCheckStep(s) /\ lastStat[s].ok) =>
              IF stale[s]
              THEN ConflictAndFileUntouched(s)
              ELSE pc'[s] = "flush_write"]_vars

\* C1 witness: a store met FileConflict on a stale snapshot, reloaded with
\* GetAll(forceFetch) and then flushed successfully.
C1_Witness == phase.n = 3

\* C2: no flush returns success after its rename replaced a document that another
\* store wrote after this flush's check (of two concurrent flushes from the same
\* version at most one succeeds).
C2_AtMostOneFlushWins ==
    \A s \in Stores : ~(pc[s] = "done" /\ res[s] = "ok" /\ clobber[s])

\* C3: whenever the backing file exists it holds a complete encoding of a document.
C3_FileIsCompleteDocument == file.exists => Decodable(file.content)

\* C5: SetAll calls flushUnlocked at most maxSetAllRetries times and every other
\* operation at most once; SetAll returns FileConflict only after maxSetAllRetries
\* conflicts; it fires one event exactly when it returns success; and it returns
\* right after a flush that succeeded or failed with another error.
C5_Counts ==
    \A s \in Stores :
        /\ flushes[s] <= (IF op[s] = "SetAll" THEN maxSetAllRetries ELSE 1)
        /\ (pc[s] = "done" /\ op[s] = "SetAll") =>
              /\ fired[s] = (IF res[s] = "ok" THEN 1 ELSE 0)
              /\ res[s] = "conflict" => flushes[s] = maxSetAllRetries
        /\ (pc[s] = "done" /\ op[s] \in FlushOps /\ res[s] # "ok") => fired[s] = 0

C5_ReturnsAtOnce ==
    \A s \in Stores :
        (op[s] = "SetAll" /\ pc[s] = "flush_stat" /\ pc'[s] # "flush_stat") =>
            /\ pc'[s] = "done"
            /\ res'[s] = (IF Stat(file).ok THEN "ok" ELSE "error")

RecordsSnapshot(s) ==
    /\ pc[s] \in {"flush_stat", "load_stat"}
    /\ pc'[s] # pc[s]
    /\ Stat(file).ok

\* C31: whenever a flush or a load of a store returns success, the snapshot the
\* store remembers identifies the file version this flush wrote or this load read,
\* also when the other store replaces the file at the same time.
C31_SnapshotIsOwnVersion ==
    [][\A s \in Stores :
          RecordsSnapshot(s) => lastStat'[s].ino = observed[s]]_vars

\* C31, the part that holds: the snapshot a successful flush or load records is the
\* file's identity at the moment of its os.Stat; when the file still is the version
\* the flush wrote or the load read, the snapshot identifies that version and the
\* file holds the encoding of the store's document.
C31_SnapshotIsFileAtStat ==
    [][\A s \in Stores :
          RecordsSnapshot(s) =>
              /\ lastStat'[s] = Stat(file)
              /\ file.ino = observed[s] =>
                    /\ lastStat'[s].ino = observed[s]
                    /\ file.content = Encode(data[s])]_vars

(***************************************************************************)
(* Part II (SpecHeap): one store and the values its reads hand to the      *)
(* caller, as Go objects.  A map[string]any is an object on the heap and   *)
(* a value of type any is a number or a reference to such an object, so    *)
(* that two values can share a nested map.                                 *)
(***************************************************************************)
MaxAddr == 4
MaxNum == 1

HKeys == {"a", "b"}
HPaths == {<<k>> : k \in HKeys} \cup {<<k, l>> : k, l \in HKeys}
Nums == 1 .. MaxNum

Num(n) == [ref |-> FALSE, v |-> n]
Ref(a) == [ref |-> TRUE, v |-> a]
Nil == Num(0)
EmptyMap == [k \in {} |-> Nil]

\* m[k] = v of Go.
Put(m, k, v) == [x \in DOMAIN m \cup {k} |-> IF x = k THEN v ELSE m[x]]
\* delete(m, k) of Go.
Del(m, k) == [x \in DOMAIN m \ {k} |-> m[x]]

\* The file codec on heap values: the document that value v stands for, as
\* the set of its paths, each with the number stored there (-1 for a map).
RECURSIVE Flat(_, _, _)
Flat(h, v, p) ==
    IF ~v.ref
    THEN {[p |-> p, n |-> v.v]}
    ELSE {[p |-> p, n |-> -1]}
         \cup UNION {Flat(h, h[v.v][k], Append(p, k)) : k \in DOMAIN h[v.v]}

Doc(h, a) == Flat(h, Ref(a), <<>>)

(***************************************************************************)
(* maputil on the heap.  Each function returns the heap it leaves behind.  *)
(***************************************************************************)
NavError(e, h) == [err |-> e, h |-> h, parentMap |-> 0, lastKey |-> ""]

\* The loop of NavigateToParentMap and the type assertion after it.
RECURSIVE Navigate(_, _, _, _)
Navigate(h, current, keys, createMissing) ==
    IF ~current.ref
    THEN NavError("notmap", h)
    ELSE IF Len(keys) = 1
    THEN [err |-> "none", h |-> h, parentMap |-> current.v, lastKey |-> keys[1]]
    ELSE LET key == keys[1]
             m == h[current.v]
         IN IF key \in DOMAIN m
            THEN Navigate(h, m[key], Tail(keys), createMissing)
            ELSE IF createMissing /\ key # ""
                 THEN LET newMap == Len(h) + 1
                          h1 == Append([h EXCEPT ![current.v] = Put(@, key, Ref(newMap))],
                                       EmptyMap)
                      IN Navigate(h1, Ref(newMap), Tail(keys), createMissing)
                 ELSE NavError("notfound", h)

NavigateToParentMap(h, d, keys, createMissing) ==
    IF Len(keys) = 0 THEN NavError("empty", h) ELSE Navigate(h, d, keys, createMissing)

GetValueAtPath(h, d, keys) ==
    LET nav == NavigateToParentMap(h, d, keys, FALSE)
    IN IF nav.err # "none"
       THEN [err |-> nav.err, val |-> Nil]
       ELSE IF nav.lastKey \notin DOMAIN h[nav.parentMap]
            THEN [err |-> "notfound", val |-> Nil]
            ELSE [err |-> "none", val |-> h[nav.parentMap][nav.lastKey]]

\* DeepCopyValue: a number is returned as it is, a map is copied into new
\* objects, entry by entry.
RECURSIVE DeepCopyValue(_, _), DeepCopyEntries(_, _, _, _)
DeepCopyValue(h, value) ==
    IF ~value.ref
    THEN [h |-> h, val |-> value]
    ELSE LET newV == Len(h) + 1
         IN [h |-> DeepCopyEntries(Append(h, EmptyMap), value.v, newV, DOMAIN h[value.v]),
             val |-> Ref(newV)]

DeepCopyEntries(h, v, newV, ks) ==
    IF ks = {}
    THEN h
    ELSE LET k == CHOOSE x \in ks : TRUE
             c == DeepCopyValue(h, h[v][k])
         IN DeepCopyEntries([c.h EXCEPT ![newV] = Put(@, k, c.val)], v, newV, ks \ {k})

SetValueAtPath(h, d, keys, value) ==
    LET nav == NavigateToParentMap(h, d, keys, TRUE)
    IN IF nav.err # "none"
       THEN [err |-> nav.err, h |-> nav.h]
       ELSE IF nav.lastKey = ""
            THEN [err |-> "notfound", h |-> nav.h]
            ELSE LET c == DeepCopyValue(nav.h, value)
                 IN [err |-> "none",
                     h |-> [c.h EXCEPT ![nav.parentMap] = Put(@, nav.lastKey, c.val)]]

\* DeleteValueAtPath that reports a path that is not there.
DeleteValueAtPathStrict(h, d, keys) ==
    LET nav == NavigateToParentMap(h, d, keys, FALSE)
    IN IF nav.err # "none"
       THEN [err |-> nav.err, h |-> h]
       ELSE IF nav.lastKey \notin DOMAIN h[nav.parentMap]
            THEN [err |-> "notfound", h |-> h]
            ELSE [err |-> "none", h |-> [h EXCEPT ![nav.parentMap] = Del(@, nav.lastKey)]]

DeleteValueAtPath(h, d, keys) ==
    LET nav == NavigateToParentMap(h, d, keys, FALSE)
    IN IF nav.err = "notfound"
       THEN [err |-> "none", h |-> h]
       ELSE IF nav.err # "none"
            THEN [err |-> nav.err, h |-> h]
            ELSE [err |-> "none", h |-> [h EXCEPT ![nav.parentMap] = Del(@, nav.lastKey)]]

\* maps.Copy into a new map: the entries are copied, the maps they refer to are not.
ShallowCopy(h, a) == [h |-> Append(h, h[a]), val |-> Ref(Len(h) + 1)]

(***************************************************************************)
(* Garbage collection: an object neither the store nor the caller can      *)
(* reach is gone; the objects left keep their order.                       *)
(***************************************************************************)
RefsOf(h, a) == {h[a][k].v : k \in {x \in DOMAIN h[a] : h[a][x].ref}}

RECURSIVE Reach(_, _)
Reach(h, as) ==
    LET more == as \cup UNION {RefsOf(h, a) : a \in as}
    IN IF more = as THEN as ELSE Reach(h, more)

\* The step leaves heap h, store.data at r and the caller holding g.
Leave(h, r, g) ==
    LET live == Reach(h, {r} \cup (IF g.ref THEN {g.v} ELSE {})
                              \cup (IF dflt # 0 THEN {dflt} ELSE {}))
        at(a) == Cardinality({b \in live : b <= a})
        old(i) == CHOOSE a \in live : at(a) = i
        move(v) == IF v.ref THEN Ref(at(v.v)) ELSE v
    IN /\ heap' = [i \in 1 .. Cardinality(live) |->
                      [k \in DOMAIN h[old(i)] |-> move(h[old(i)][k])]]
       /\ root' = at(r)
       /\ got' = move(g)
       /\ dflt' = IF dflt # 0 THEN at(dflt) ELSE 0

(***************************************************************************)
(* The store's operations on the heap (autoFlush on, no other writer of    *)
(* the file), and what the caller does with the values it was given.       *)
(***************************************************************************)
\* setKey: SetValueAtPath on store.data, then the flush.
HSetKey(keys, n) ==
    LET set == SetValueAtPath(heap, Ref(root), keys, Num(n))
    IN /\ Leave(set.h, root, got)
       /\ Len(heap') <= MaxAddr
       /\ hdisk' = IF set.err = "none" THEN Doc(set.h, root) ELSE hdisk
       /\ UNCHANGED nonHeapVars

\* deleteKey: DeleteValueAtPath on store.data, then the flush.
HDeleteKey(keys) ==
    LET del == DeleteValueAtPath(heap, Ref(root), keys)
    IN /\ Leave(del.h, root, got)
       /\ hdisk' = IF del.err = "none" THEN Doc(del.h, root) ELSE hdisk
       /\ UNCHANGED nonHeapVars

\* Flush: the document is encoded into the file.
HFlush ==
    /\ hdisk' = Doc(heap, root)
    /\ UNCHANGED <<heap, root, got, dflt>>
    /\ UNCHANGED nonHeapVars

\* GetAll: dataCopy := make(map[string]any); maps.Copy(dataCopy, store.data).
HGetAll ==
    LET dataCopy == ShallowCopy(heap, root)
    IN /\ Leave(dataCopy.h, root, dataCopy.val)
       /\ Len(heap') <= MaxAddr
       /\ UNCHANGED hdisk
       /\ UNCHANGED nonHeapVars

\* GetKey: DeepCopyValue of the value at the path.
HGetKey(keys) ==
    LET val == GetValueAtPath(heap, Ref(root), keys)
        c == DeepCopyValue(heap, val.val)
    IN /\ val.err = "none"
       /\ Leave(c.h, root, c.val)
       /\ Len(heap') <= MaxAddr
       /\ UNCHANGED hdisk
       /\ UNCHANGED nonHeapVars

\* The caller assigns to an entry of the map it was given, or of a map nested in it.
CallerAssign(keys, n) ==
    LET nav == NavigateToParentMap(heap, got, keys, FALSE)
    IN /\ nav.err = "none"
       /\ Leave([heap EXCEPT ![nav.parentMap] = Put(@, nav.lastKey, Num(n))], root, got)
       /\ UNCHANGED hdisk
       /\ UNCHANGED nonHeapVars

\* The caller deletes an entry of the map it was given, or of a map nested in it.
CallerDelete(keys) ==
    LET nav == NavigateToParentMap(heap, got, keys, FALSE)
    IN /\ nav.err = "none"
       /\ nav.lastKey \in DOMAIN heap[nav.parentMap]
       /\ Leave([heap EXCEPT ![nav.parentMap] = Del(@, nav.lastKey)], root, got)
       /\ UNCHANGED hdisk
       /\ UNCHANGED nonHeapVars

\* A store opened on a new file with nil defaults; the caller holds nothing.
InitHeap ==
    /\ heap = <<EmptyMap>>
    /\ root = 1
    /\ got = Nil
    /\ hdisk = Doc(<<EmptyMap>>, 1)
    /\ dflt = 0

NextHeap ==
    \/ \E keys \in HPaths, n \in Nums : HSetKey(keys, n)
    \/ \E keys \in HPaths : HDeleteKey(keys)
    \/ HFlush
    \/ HGetAll
    \/ \E keys \in HPaths : HGetKey(keys)
    \/ \E keys \in HPaths, n \in Nums : CallerAssign(keys, n)
    \/ \E keys \in HPaths : CallerDelete(keys)

(***************************************************************************)
(* C4: a caller that changes a value GetAll or GetKey returned, at any     *)
(* nesting depth, changes neither what the store returns later nor what    *)
(* it writes: a step of the caller on such a value leaves the store's      *)
(* document as it is.                                                      *)
(***************************************************************************)
CallerStep ==
    \E keys \in HPaths : (\E n \in Nums : CallerAssign(keys, n)) \/ CallerDelete(keys)

C4_ReturnedValuesAreCopies ==
    [][CallerStep => Doc(heap', root') = Doc(heap, root)]_vars

(***************************************************************************)
(* Part III (SpecStore): one store used by one goroutine, every operation  *)
(* one step, with its listeners; other processes replace or remove the     *)
(* file between the operations.                                            *)
(***************************************************************************)
MaxSIno == 3

\* The listeners given to WithFileListeners: one of them nil, one that panics.
Registered == <<"A", "nil", "B", "C">>
\* The listeners that panic when called.
Panicking == {"B"}

SPaths == {<<>>, <<"a">>, <<"a", "b">>, <<"a", "">>}

\* A value as an event carries it: DeepCopyValue, compared by content.
Value(h, v) == Flat(h, v, <<>>)
NoValue == Value(<<>>, Nil)
NoData == {}

\* fileEncoderDecoder.Decode: the object graph of the document doc below path p.
RECURSIVE Build(_, _, _), BuildEntries(_, _, _, _, _)
Build(h, doc, p) ==
    LET n == (CHOOSE r \in doc : r.p = p).n
    IN IF n # -1
       THEN [h |-> h, val |-> Num(n)]
       ELSE LET newV == Len(h) + 1
                ks == {k \in HKeys : \E r \in doc : r.p = Append(p, k)}
            IN [h |-> BuildEntries(Append(h, EmptyMap), doc, p, newV, ks), val |-> Ref(newV)]

BuildEntries(h, doc, p, newV, ks) ==
    IF ks = {}
    THEN h
    ELSE LET k == CHOOSE x \in ks : TRUE
             c == Build(h, doc, Append(p, k))
         IN BuildEntries([c.h EXCEPT ![newV] = Put(@, k, c.val)], doc, p, newV, ks \ {k})

\* os.Stat of the store's file.
SStat(f, content) ==
    [ok |-> f.exists, ino |-> f.ino, size |-> IF f.exists THEN Cardinality(content) ELSE 0,
     mtime |-> 0]

\* The file a rename or a create leaves: its inode is neither the one of the
\* file it replaces nor the one the store remembers.
NewSFile ==
    [exists |-> TRUE,
     ino |-> CHOOSE i \in 1 .. MaxSIno : i # sfile.ino /\ i # slast.ino]

FireEventNoRecover(ls, e) ==
    LET calls == SelectSeq(ls, LAMBDA l : l # "nil")
        stop == IF \E i \in 1 .. Len(calls) : calls[i] \in Panicking
                THEN CHOOSE i \in 1 .. Len(calls) :
                         /\ calls[i] \in Panicking
                         /\ \A j \in 1 .. i - 1 : calls[j] \notin Panicking
                ELSE Len(calls)
    IN [log |-> [i \in 1 .. stop |-> [l |-> calls[i], e |-> e]],
        panic |-> \E i \in 1 .. Len(calls) : calls[i] \in Panicking]

\* fireEvent: every listener that is not nil is called with e, in the order
\* of store.listeners; a panic of a listener is recovered within its call.
FireEvent(ls, e) ==
    LET calls == SelectSeq(ls, LAMBDA l : l # "nil")
    IN [log |-> [i \in 1 .. Len(calls) |-> [l |-> calls[i], e |-> e]], panic |-> FALSE]

Event(o, keys, old, new, d) == [op |-> o, keys |-> keys, old |-> old, new |-> new, data |-> d]

(***************************************************************************)
(* The operations of the store, each with the flush and the events it      *)
(* makes.                                                                  *)
(***************************************************************************)
MaxSAddr == 4

Mutators == {"SetAll", "SetKey", "DeleteKey", "Reset", "DeleteFile"}

\* A check that asks for the remembered file also when no snapshot is remembered.
SFlushErrStrict ==
    IF ~isSameFileInfo(SStat(sfile, hdisk), slast) THEN "conflict" ELSE "none"

\* The check of flushUnlocked against the snapshot.
SFlushErr ==
    IF slast.ok /\ ~isSameFileInfo(SStat(sfile, hdisk), slast) THEN "conflict" ELSE "none"

\* flushUnlocked past the check: temp file, rename, rememberStat.
SFlushed(h, r) ==
    /\ sfile' = NewSFile
    /\ hdisk' = Doc(h, r)
    /\ slast' = SStat(NewSFile, Doc(h, r))

FinishAlwaysFires(o, err, e) ==
    /\ delivered' = FireEvent(listeners, e).log
    /\ sret' = [op |-> o, err |-> err]

\* The public operation o returns err; when err is nil and o is a mutation,
\* fireEvent(e) has run before.
Finish(o, err, e) ==
    LET fe == IF err = "none" /\ o \in Mutators
              THEN FireEvent(listeners, e)
              ELSE [log |-> <<>>, panic |-> FALSE]
    IN /\ delivered' = fe.log
       /\ sret' = [op |-> o, err |-> IF fe.panic THEN "panic" ELSE err]

NoEvent == Event("none", <<>>, NoValue, NoValue, NoData)

\* if store.autoFlush, taken as true.
AutoFlushOn == TRUE

\* if store.autoFlush, in setKey, deleteKey and setAll.
AutoFlush == sauto

SSetKey(keys, n) ==
    LET oldVal == GetValueAtPath(heap, Ref(root), keys)
        set == IF Len(keys) = 0
               THEN [err |-> "empty", h |-> heap]
               ELSE SetValueAtPath(heap, Ref(root), keys, Num(n))
        copyAfter == Doc(set.h, root)
        flushed == set.err = "none" /\ AutoFlush /\ SFlushErr = "none"
        err == IF set.err = "none" /\ AutoFlush THEN SFlushErr ELSE set.err
    IN /\ Leave(set.h, root, got)
       /\ Len(heap') <= MaxSAddr
       /\ IF flushed THEN SFlushed(set.h, root) ELSE UNCHANGED <<sfile, hdisk, slast>>
       /\ Finish("SetKey", err,
                 Event("setKey", keys, Value(set.h, oldVal.val), Value(set.h, Num(n)),
                       copyAfter))
       /\ UNCHANGED <<sauto, listeners>>
       /\ UNCHANGED nonStoreVars

SDeleteKey(keys) ==
    LET oldVal == GetValueAtPath(heap, Ref(root), keys)
        del == IF Len(keys) = 0
               THEN [err |-> "empty", h |-> heap]
               ELSE DeleteValueAtPath(heap, Ref(root), keys)
        copyAfter == Doc(del.h, root)
        flushed == del.err = "none" /\ AutoFlush /\ SFlushErr = "none"
        err == IF del.err = "none" /\ AutoFlush THEN SFlushErr ELSE del.err
    IN /\ Leave(del.h, root, got)
       /\ IF flushed THEN SFlushed(del.h, root) ELSE UNCHANGED <<sfile, hdisk, slast>>
       /\ Finish("DeleteKey", err,
                 Event("deleteKey", keys, Value(heap, oldVal.val), NoValue, copyAfter))
       /\ UNCHANGED <<sauto, listeners>>
       /\ UNCHANGED nonStoreVars

\* SetAll(data), data being a map the caller has built for the document doc
\* and drops after the call: setAll, and after a conflict load and setAll
\* again.  Nothing else touches the file while the one goroutine is in the
\* loop, so the flush after a reload passes the check.
SSetAll(doc) ==
    LET input == Build(heap, doc, <<>>)
        set == ShallowCopy(input.h, input.val.v)
        copyAfter == Doc(set.h, set.val.v)
        conflict == AutoFlush /\ SFlushErr = "conflict"
        loadFails == conflict /\ ~sfile.exists
    IN /\ Leave(set.h, set.val.v, got)
       /\ Len(heap') <= MaxSAddr
       /\ IF AutoFlush /\ ~loadFails
          THEN SFlushed(set.h, set.val.v)
          ELSE UNCHANGED <<sfile, hdisk, slast>>
       /\ Finish("SetAll", IF loadFails THEN "error" ELSE "none",
                 Event("setFile", <<>>, NoValue, NoValue, copyAfter))
       /\ UNCHANGED <<sauto, listeners>>
       /\ UNCHANGED nonStoreVars

\* Reset: the defaults are copied into a new map and flushed, whatever autoFlush says.
SReset ==
    LET set == IF dflt = 0
               THEN [h |-> Append(heap, EmptyMap), val |-> Ref(Len(heap) + 1)]
               ELSE ShallowCopy(heap, dflt)
        copyAfter == Doc(set.h, set.val.v)
    IN /\ Leave(set.h, set.val.v, got)
       /\ Len(heap') <= MaxSAddr
       /\ IF SFlushErr = "none"
          THEN SFlushed(set.h, set.val.v)
          ELSE UNCHANGED <<sfile, hdisk, slast>>
       /\ Finish("Reset", SFlushErr, Event("resetFile", <<>>, NoValue, NoValue, copyAfter))
       /\ UNCHANGED <<sauto, listeners>>
       /\ UNCHANGED nonStoreVars

\* DeleteFile: the check (only against a file that exists), os.Remove, the
\* snapshot and the document cleared, and the event.
SDeleteFile ==
    LET cur == SStat(sfile, hdisk)
        conflict == slast.ok /\ cur.ok /\ ~isSameFileInfo(cur, slast)
        h == Append(heap, EmptyMap)
    IN /\ IF conflict
          THEN UNCHANGED <<heap, root, got, hdisk, dflt, sfile, slast>>
          ELSE /\ Leave(h, Len(h), got)
               /\ Len(heap') <= MaxSAddr
               /\ sfile' = [exists |-> FALSE, ino |-> 0]
               /\ hdisk' = NoData
               /\ slast' = SStat([exists |-> FALSE, ino |-> 0], NoData)
       /\ Finish("DeleteFile", IF conflict THEN "conflict" ELSE "none",
                 Event("deleteFile", <<>>, NoValue, NoValue, NoData))
       /\ UNCHANGED <<sauto, listeners>>
       /\ UNCHANGED nonStoreVars

\* Flush: flushUnlocked, no event.
SFlush ==
    /\ IF SFlushErr = "none"
       THEN SFlushed(heap, root)
       ELSE UNCHANGED <<sfile, hdisk, slast>>
    /\ Finish("Flush", SFlushErr, NoEvent)
    /\ UNCHANGED <<heap, root, got, dflt, sauto, listeners>>
    /\ UNCHANGED nonStoreVars

\* GetAll: with forceFetch the file is loaded when it is not the one
\* remembered; the caller gets a new map with the entries of store.data (and
\* drops it).
SGetAll(forceFetch) ==
    LET cur == SStat(sfile, hdisk)
        reload == forceFetch /\ cur.ok /\ ~isSameFileInfo(cur, slast)
        loaded == IF reload THEN Build(heap, hdisk, <<>>) ELSE [h |-> heap, val |-> Ref(root)]
    IN /\ IF forceFetch /\ ~cur.ok
          THEN /\ UNCHANGED <<heap, root, got, dflt, slast>>
          ELSE /\ Leave(loaded.h, loaded.val.v, got)
               /\ Len(heap') <= MaxSAddr
               /\ slast' = IF reload THEN cur ELSE slast
       /\ Finish("GetAll", IF forceFetch /\ ~cur.ok THEN "error" ELSE "none", NoEvent)
       /\ UNCHANGED <<hdisk, sfile, sauto, listeners>>
       /\ UNCHANGED nonStoreVars

\* GetKey: the caller gets a deep copy of the value at the path (and drops it).
SGetKey(keys) ==
    LET val == GetValueAtPath(heap, Ref(root), keys)
    IN /\ Finish("GetKey", val.err, NoEvent)
       /\ UNCHANGED <<heap, root, got, dflt, hdisk, sfile, slast, sauto, listeners>>
       /\ UNCHANGED nonStoreVars

\* createFileIfNotExists: what NewMapFileStore does about the file.
CreateAlways(exists, createIfNotExists) == IF exists THEN "load" ELSE "create"

createFileIfNotExists(exists, createIfNotExists) ==
    IF exists THEN "load"
    ELSE IF createIfNotExists THEN "create" ELSE "error"

\* NewMapFileStore on the path of the store, with the defaults and options the
\* store was given: createFileIfNotExists (which flushes a copy of the
\* defaults into a file it created), load, rememberStat.  The store it
\* returns takes the place of the one the caller had; when it fails the
\* caller keeps the old one.
SOpen(createIfNotExists) ==
    LET todo == createFileIfNotExists(sfile.exists, createIfNotExists)
        copied == IF dflt = 0
                  THEN [h |-> Append(heap, EmptyMap), val |-> Ref(Len(heap) + 1)]
                  ELSE ShallowCopy(heap, dflt)
        content == IF todo = "create" THEN Doc(copied.h, copied.val.v) ELSE hdisk
        f == IF todo = "create" THEN NewSFile ELSE sfile
        loaded == Build(heap, content, <<>>)
    IN /\ IF todo = "error"
          THEN UNCHANGED <<heap, root, got, hdisk, dflt, sfile, slast>>
          ELSE /\ Leave(loaded.h, loaded.val.v, got)
               /\ Len(heap') <= MaxSAddr
               /\ sfile' = f
               /\ hdisk' = content
               /\ slast' = SStat(f, content)
       /\ Finish("Open", IF todo = "error" THEN "notexist" ELSE "none", NoEvent)
       /\ UNCHANGED <<sauto, listeners>>
       /\ UNCHANGED nonStoreVars

\* Close does nothing.
SClose ==
    /\ Finish("Close", "none", NoEvent)
    /\ UNCHANGED <<heap, root, got, hdisk, dflt, sfile, slast, sauto, listeners>>
    /\ UNCHANGED nonStoreVars

\* The caller has taken the result of the last operation.
Forget ==
    /\ delivered' = <<>>
    /\ sret' = [op |-> "none", err |-> "none"]

\* Another process replaces the file by one that holds doc.
ExternalWrite(doc) ==
    /\ sfile' = NewSFile
    /\ hdisk' = doc
    /\ Forget
    /\ UNCHANGED <<heap, root, got, dflt, slast, sauto, listeners>>
    /\ UNCHANGED nonStoreVars

\* Another process removes the file.
ExternalRemove ==
    /\ sfile.exists
    /\ sfile' = [exists |-> FALSE, ino |-> 0]
    /\ hdisk' = NoData
    /\ Forget
    /\ UNCHANGED <<heap, root, got, dflt, slast, sauto, listeners>>
    /\ UNCHANGED nonStoreVars

ExternalDocs == {Doc(<<[a |-> Num(1)]>>, 1)}
SetAllDocs == {Doc(<<EmptyMap>>, 1), Doc(<<[a |-> Ref(2)], [b |-> Num(1)]>>, 1)}

\* The defaults given to NewMapFileStore: nil, or a mapping with a nested mapping.
GivenDefaults ==
    IF dflt = 0 THEN Doc(<<EmptyMap>>, 1) ELSE Doc(<<[a |-> Ref(2)], [b |-> Num(1)]>>, 1)

\* The store as NewMapFileStore returns it for a path that did not exist:
\* the file holds the defaults, store.data is what load decoded from it.
InitStore ==
    /\ sauto \in BOOLEAN
    /\ listeners = Registered
    /\ \/ /\ dflt = 1
          /\ heap = <<[a |-> Ref(2)], [b |-> Num(1)], [a |-> Ref(4)], [b |-> Num(1)]>>
          /\ root = 3
       \/ /\ dflt = 0
          /\ heap = <<EmptyMap>>
          /\ root = 1
    /\ got = Nil
    /\ hdisk = Doc(heap, root)
    /\ sfile = [exists |-> TRUE, ino |-> 1]
    /\ slast = SStat(sfile, hdisk)
    /\ delivered = <<>>
    /\ sret = [op |-> "none", err |-> "none"]

\* The variables of Part III while another part runs.
ParkedStore ==
    /\ sfile = [exists |-> FALSE, ino |-> 0]
    /\ slast = SStat(sfile, NoData)
    /\ sauto = TRUE
    /\ listeners = <<>>
    /\ delivered = <<>>
    /\ sret = [op |-> "none", err |-> "none"]

NextStore ==
    \/ \E keys \in SPaths, n \in Nums : SSetKey(keys, n)
    \/ \E keys \in SPaths : SDeleteKey(keys)
    \/ \E doc \in SetAllDocs : SSetAll(doc)
    \/ SReset
    \/ SDeleteFile
    \/ SFlush
    \/ \E forceFetch \in BOOLEAN : SGetAll(forceFetch)
    \/ \E keys \in SPaths : SGetKey(keys)
    \/ SClose
    \/ \E createIfNotExists \in BOOLEAN : SOpen(createIfNotExists)
    \/ \E doc \in ExternalDocs : ExternalWrite(doc)
    \/ ExternalRemove

(***************************************************************************)
(* C6: an operation that mutates (SetAll, SetKey, DeleteKey, Reset,        *)
(* DeleteFile) and returns nil has called every registered listener        *)
(* exactly once; an operation that fails, a read, Flush and Close have     *)
(* called none; and the Data of the event is what GetAll returns right     *)
(* after the operation (nil for deleteFile).                               *)
(***************************************************************************)
RegisteredListeners == {listeners[i] : i \in 1 .. Len(listeners)} \ {"nil"}
CallsOf(l) == Cardinality({i \in 1 .. Len(delivered) : delivered[i].l = l})
GetAllNow ==
    LET dataCopy == ShallowCopy(heap, root) IN Doc(dataCopy.h, dataCopy.val.v)

C6_OneEventPerMutation ==
    /\ (sret.op \in Mutators /\ sret.err = "none")
          => /\ \A l \in RegisteredListeners : CallsOf(l) = 1
             /\ Len(delivered) = Cardinality(RegisteredListeners)
    /\ (sret.op \notin Mutators \/ sret.err # "none") => delivered = <<>>
    /\ \A i \in 1 .. Len(delivered) :
          delivered[i].e.data = IF sret.op = "DeleteFile" THEN NoData ELSE GetAllNow

C6_Witness ==
    /\ sret = [op |-> "SetKey", err |-> "none"]
    /\ Len(delivered) = 3
    /\ delivered[1].e.keys = <<"a", "b">>
    /\ delivered[1].e.data = GetAllNow
    /\ sfile.exists

(***************************************************************************)
(* C8: the listeners are called within the operation, in the order of      *)
(* their registration; a listener that panics keeps neither the listeners  *)
(* after it from being called nor the operation from returning nil, and    *)
(* the mutation stays: in memory, and in the file when autoFlush is on.    *)
(***************************************************************************)
C8_ListenersInOrder ==
    /\ sret.err # "panic"
    /\ (sret.op \in Mutators /\ sret.err = "none")
          => /\ [i \in 1 .. Len(delivered) |-> delivered[i].l]
                    = SelectSeq(listeners, LAMBDA l : l # "nil")
             /\ \A i \in 1 .. Len(delivered) : delivered[i].e = delivered[1].e
             /\ sret.op = "SetKey"
                    => LET now == GetValueAtPath(heap, Ref(root), delivered[1].e.keys)
                       IN now.err = "none" /\ Value(heap, now.val) = delivered[1].e.new
             /\ sret.op = "DeleteKey"
                    => GetValueAtPath(heap, Ref(root), delivered[1].e.keys).err # "none"
             /\ (sauto /\ sret.op # "DeleteFile") => sfile.exists /\ hdisk = Doc(heap, root)
             /\ sret.op = "DeleteFile" => ~sfile.exists

C8_Witness ==
    /\ sret = [op |-> "SetKey", err |-> "none"]
    /\ \E i, j \in 1 .. Len(delivered) :
          i < j /\ delivered[i].l \in Panicking /\ delivered[j].l \notin Panicking
    /\ sauto /\ hdisk = delivered[1].e.data

(***************************************************************************)
(* C23 to C27 and C29: the contract of the single operations, on the store *)
(* of Part III.                                                            *)
(***************************************************************************)
\* The document GetAll returns, and the document a store opened now would load.
InMemory == Doc(heap, root)

\* C23: a Reset that returns nil leaves the in-memory document and the file
\* equal to the defaults given at Open, whatever successful SetKey, DeleteKey,
\* SetAll and Reset calls came before, with autoFlush on or off.
C23_ResetRestoresDefaults ==
    [][(sret'.op = "Reset" /\ sret'.err = "none")
          => Doc(heap', root') = GivenDefaults /\ hdisk' = GivenDefaults]_vars

\* The part of C23 that holds: after a Reset that returns nil the file holds
\* what the store holds in memory, and with nil defaults both are empty.
C23_ResetFlushes ==
    [][(sret'.op = "Reset" /\ sret'.err = "none")
          => /\ hdisk' = Doc(heap', root')
             /\ dflt = 0 => hdisk' = GivenDefaults]_vars

\* The file exists, the store remembers a snapshot, and the two differ in
\* inode or size.
IdentityDiffers ==
    /\ slast.ok
    /\ sfile.exists
    /\ <<sfile.ino, Cardinality(hdisk)>> # <<slast.ino, slast.size>>

DeleteFileEvents ==
    /\ Len(delivered') = Cardinality(RegisteredListeners)
    /\ \A l \in RegisteredListeners :
          Cardinality({i \in 1 .. Len(delivered') : delivered'[i].l = l}) = 1
    /\ \A i \in 1 .. Len(delivered') : delivered'[i].e.op = "deleteFile"

\* C24: when the file is not the one the store remembers, DeleteFile returns
\* FileConflict and leaves the file, the in-memory document and the snapshot
\* as they were and calls no listener; otherwise it returns nil, the file is
\* gone, the in-memory document is empty, the snapshot is nil and every
\* listener has received one deleteFile event.
C24_DeleteFile ==
    [][sret'.op = "DeleteFile" =>
          IF IdentityDiffers
          THEN /\ sret'.err = "conflict"
               /\ sfile' = sfile /\ hdisk' = hdisk
               /\ Doc(heap', root') = Doc(heap, root)
               /\ slast' = slast
               /\ delivered' = <<>>
          ELSE /\ sret'.err = "none"
               /\ ~sfile'.exists
               /\ Doc(heap', root') = Doc(<<EmptyMap>>, 1)
               /\ ~slast'.ok
               /\ DeleteFileEvents]_vars

\* DeleteFile has failed with FileConflict on a file another process wrote,
\* and the store still holds a document that is not empty.
C24_Witness ==
    /\ sret = [op |-> "DeleteFile", err |-> "conflict"]
    /\ sfile.exists
    /\ hdisk \in ExternalDocs
    /\ InMemory # Doc(<<EmptyMap>>, 1)
    /\ InMemory # hdisk

\* The path keys ends at a key that is not there, or passes through one.
RECURSIVE Missing(_, _)
Missing(keys, k) ==
    /\ k <= Len(keys)
    /\ \/ [p |-> SubSeq(keys, 1, k), n |-> -1] \in InMemory /\ Missing(keys, k + 1)
       \/ /\ \A r \in InMemory : r.p # SubSeq(keys, 1, k)
          /\ [p |-> SubSeq(keys, 1, k - 1), n |-> -1] \in InMemory

\* The flush of the call, if it makes one, finds the file the store remembers.
FlushPasses == ~AutoFlush \/ SFlushErr = "none"

\* The last call was DeleteKey(keys) and returned nil.
JustDeleted(keys) ==
    /\ sret = [op |-> "DeleteKey", err |-> "none"]
    /\ Len(delivered) > 0
    /\ delivered[1].e.keys = keys

C26_NoAutoFlush ==
    [][/\ (~sauto /\ sret'.op \in {"SetKey", "DeleteKey", "SetAll", "Close", "GetAll", "GetKey"})
          => sfile' = sfile /\ hdisk' = hdisk
       /\ (sret' = [op |-> "Open", err |-> "none"] /\ sfile.exists)
          => Doc(heap', root') = hdisk /\ hdisk' = hdisk]_vars

\* With autoFlush off SetKey on a nested path has succeeded, and the file
\* still holds the document another process wrote before, not the store's.
C26_Witness ==
    /\ ~sauto
    /\ sret = [op |-> "SetKey", err |-> "none"]
    /\ delivered[1].e.keys = <<"a", "b">>
    /\ sfile.exists
    /\ hdisk # InMemory
    /\ hdisk = Doc(<<[a |-> Num(1)]>>, 1)

\* The defaults the store object holds, as a document (empty for nil).
DefaultsNow == IF dflt = 0 THEN Doc(<<EmptyMap>>, 1) ELSE Doc(heap, dflt)

\* C27: NewMapFileStore on an absent file fails and creates nothing without
\* createIfNotExists, and with it creates the file with the defaults (the empty
\* mapping for nil) and holds them in memory; on an existing file it loads
\* the document of the file whatever the defaults are; and whenever it
\* succeeds the snapshot is the identity of the file.
C27_Open ==
    [][\A createIfNotExists \in BOOLEAN :
          SOpen(createIfNotExists) =>
              /\ (~sfile.exists /\ ~createIfNotExists)
                    => sret'.err # "none" /\ ~sfile'.exists
              /\ (~sfile.exists /\ createIfNotExists)
                    => /\ sret'.err = "none"
                       /\ sfile'.exists
                       /\ hdisk' = DefaultsNow
                       /\ Doc(heap', root') = DefaultsNow
              /\ sfile.exists
                    => /\ sret'.err = "none"
                       /\ sfile' = sfile /\ hdisk' = hdisk
                       /\ Doc(heap', root') = hdisk
              /\ sret'.err = "none"
                    => /\ slast'.ok
                       /\ <<slast'.ino, slast'.size>> = <<sfile'.ino, Cardinality(hdisk')>>]_vars

\* NewMapFileStore without createIfNotExists has failed on the path whose file
\* DeleteFile or another process removed, and there is still no file.
C27_Witness ==
    /\ sret = [op |-> "Open", err |-> "notexist"]
    /\ ~sfile.exists
    /\ hdisk = NoData

\* C29: a SetKey or DeleteKey that returns an error, for its path or for its
\* flush, leaves the in-memory document as it was before the call.
C29_FailedMutation ==
    [][(sret'.op \in {"SetKey", "DeleteKey"} /\ sret'.err # "none")
          => Doc(heap', root') = Doc(heap, root)]_vars

\* The part of C29 that holds: a SetKey or DeleteKey that fails because the
\* path is empty or passes through a value that is not a mapping leaves the
\* in-memory document as it was.
C29_BadPathLeavesDocument ==
    [][(sret'.op \in {"SetKey", "DeleteKey"} /\ sret'.err \in {"empty", "notmap"})
          => Doc(heap', root') = Doc(heap, root)]_vars

\* The operation that has just returned called flushUnlocked: Reset and Flush
\* always do, SetKey, DeleteKey and SetAll when autoFlush is on and the mutation
\* succeeded.
FlushingStep ==
    \/ sret'.op \in {"Reset", "Flush"}
    \/ /\ sret'.op \in {"SetKey", "DeleteKey", "SetAll"}
       /\ AutoFlush
       /\ sret'.err \in {"none", "conflict"}

\* The flush of the step wrote a new file that holds the store's document, and the
\* store remembers that file.
FileRecreated ==
    /\ sfile'.exists
    /\ sfile'.ino # sfile.ino
    /\ hdisk' = Doc(heap', root')
    /\ slast'.ok
    /\ slast' = SStat(sfile', hdisk')

\* C37: after a successful DeleteFile the store stays usable: it holds the empty
\* document, which GetAll without forceFetch and GetKey read, and the next
\* operation that flushes, whichever it is and whether or not another process has
\* created the file again, returns nil, re-creates the file with exactly the
\* store's document and records a new snapshot.
C37_UsableAfterDeleteFile ==
    [][/\ sret = [op |-> "DeleteFile", err |-> "none"] =>
              /\ InMemory = Doc(<<EmptyMap>>, 1)
              /\ sret'.op = "GetAll" /\ sret'.err = "none" /\ slast' = slast =>
                    Doc(heap', root') = Doc(<<EmptyMap>>, 1)
              /\ sret'.op = "GetKey" => sret'.err \in {"notfound", "empty"}
       /\ (~slast.ok /\ FlushingStep) =>
              /\ sret'.err = "none"
              /\ FileRecreated]_vars

\* DeleteFile has succeeded, the store has been given a document since that it has
\* not flushed, and another process has created the file again: the next flush
\* is the one that re-creates the file.
C37_Witness ==
    /\ ~slast.ok
    /\ sfile.exists
    /\ hdisk \in ExternalDocs
    /\ InMemory # Doc(<<EmptyMap>>, 1)

(***************************************************************************)
(* Part IV (SpecConc): several goroutines, each calling SetKey once on     *)
(* the same key of one store that has one listener.  setKey holds          *)
(* store.mu while it mutates and flushes; SetKey calls fireEvent after     *)
(* setKey has returned.                                                    *)
(***************************************************************************)
Goroutines == {"g1", "g2", "g3"}

\* The value goroutine t passes to SetKey.
NewValueOf(t) == CASE t = "g1" -> 1 [] t = "g2" -> 2 [] t = "g3" -> 3

\* store.mu.Lock() in setKey.
CLock(t) ==
    /\ cpc[t] = "call"
    /\ cmu = "none"
    /\ cmu' = t
    /\ cpc' = [cpc EXCEPT ![t] = "locked"]
    /\ UNCHANGED <<cval, cold, clog, capplied>>
    /\ UNCHANGED nonConcVars

\* setKey under the lock: oldVal, SetValueAtPath, copyAfter, the flush.
CSetKey(t) ==
    /\ cpc[t] = "locked"
    /\ cold' = [cold EXCEPT ![t] = cval]
    /\ cval' = NewValueOf(t)
    /\ capplied' = Append(capplied, t)
    /\ cpc' = [cpc EXCEPT ![t] = "unlock"]
    /\ UNCHANGED <<cmu, clog>>
    /\ UNCHANGED nonConcVars

\* The deferred store.mu.Unlock(); setKey returns.
CUnlock(t) ==
    /\ cpc[t] = "unlock"
    /\ cmu' = "none"
    /\ cpc' = [cpc EXCEPT ![t] = "fire"]
    /\ UNCHANGED <<cval, cold, clog, capplied>>
    /\ UNCHANGED nonConcVars

\* fireEvent in SetKey: the listener is called, SetKey returns.
CFireEvent(t) ==
    /\ cpc[t] = "fire"
    /\ clog' = Append(clog, [by |-> t, old |-> cold[t], new |-> NewValueOf(t)])
    /\ cpc' = [cpc EXCEPT ![t] = "done"]
    /\ UNCHANGED <<cmu, cval, cold, capplied>>
    /\ UNCHANGED nonConcVars

InitConc ==
    /\ cmu = "none"
    /\ cpc = [t \in Goroutines |-> "call"]
    /\ cval = 0
    /\ cold = [t \in Goroutines |-> 0]
    /\ clog = <<>>
    /\ capplied = <<>>

NextConc ==
    \E t \in Goroutines :
        \/ CLock(t)
        \/ CSetKey(t)
        \/ CUnlock(t)
        \/ CFireEvent(t)

(***************************************************************************)
(* C7: with concurrent calls of SetKey on one store every call makes one   *)
(* event, the listener gets the events in the order in which the           *)
(* mutations were applied, and once all calls have returned the value at   *)
(* the key is the NewValue of the event delivered last.                    *)
(***************************************************************************)
C7_EventsInMutationOrder ==
    /\ \A t \in Goroutines :
          Cardinality({i \in 1 .. Len(clog) : clog[i].by = t})
              = IF cpc[t] = "done" THEN 1 ELSE 0
    /\ \A i \in 1 .. Len(clog) :
          \E j \in 1 .. Len(capplied) :
              /\ capplied[j] = clog[i].by
              /\ \A k \in 1 .. i - 1 : \E l \in 1 .. j - 1 : capplied[l] = clog[k].by
    /\ (\A t \in Goroutines : cpc[t] = "done") => cval = clog[Len(clog)].new

(***************************************************************************)
(* Part V (SpecCodec): the codec pipeline of flushUnlocked and load.  A    *)
(* document is a tree: a number, a map, or the string a value codec made   *)
(* of a subtree.                                                           *)
(***************************************************************************)
NoEntries == [k \in {} |-> 0]
TNum(n) == [n |-> n, m |-> NoEntries]
TMap(f) == [n |-> -1, m |-> f]
\* base64 of the bytes the value codec encoded the tree t to.
TStr(t) == [n |-> -2, m |-> [k \in {"bytes"} |-> t]]
IsMap(t) == t.n = -1
IsStr(t) == t.n = -2

PlainKeys == {"a", "b"}

\* Base64StringEncoderDecoder.
Base64Encode(k) ==
    CASE k = "a" -> "YQ==" [] k = "b" -> "Yg=="
      [] k = "YQ==" -> "WVE9PQ==" [] k = "Yg==" -> "WWc9PQ=="
Base64Decode(k) ==
    CASE k = "YQ==" -> [err |-> FALSE, key |-> "a"]
      [] k = "Yg==" -> [err |-> FALSE, key |-> "b"]
      [] OTHER -> [err |-> TRUE, key |-> ""]

\* A codec that maps "a" to "b" and "b" to "a", as ROT13 maps "a" to "n".
SwapCode(k) == CASE k = "a" -> "b" [] k = "b" -> "a" [] OTHER -> k

KeyEncode(codec, k) == IF codec = "base64" THEN Base64Encode(k) ELSE SwapCode(k)
KeyDecode(codec, k) ==
    IF codec = "base64" THEN Base64Decode(k) ELSE [err |-> FALSE, key |-> SwapCode(k)]

\* The key codec providers: none, a codec for every path, a codec for the
\* top-level keys and for the keys below the top-level key "a", a codec for
\* the keys named "a".
KeyProviders == {"none", "base64 everywhere", "swap everywhere", "base64 top and below a",
                 "base64 for a"}

\* getKeyEncDec(path): the codec, or "nil".
KeyEncDecGetter(provider, path) ==
    CASE provider = "none" -> "nil"
      [] provider = "base64 everywhere" -> "base64"
      [] provider = "swap everywhere" -> "swap"
      [] provider = "base64 top and below a" ->
            IF Len(path) = 1 \/ (Len(path) = 2 /\ path[1] = "a") THEN "base64" ELSE "nil"
      [] provider = "base64 for a" ->
            IF path[Len(path)] = "a" THEN "base64" ELSE "nil"

\* The value codec providers: none, a codec for the value at ["a"], a codec
\* for the value at ["a", "b"].
ValueProviders == {<<>>, <<"a">>, <<"a", "b">>}

\* getValueEncDec(path) # nil.
ValueEncDecGetter(provider, path) == provider # <<>> /\ path = provider

(***************************************************************************)
(* encodeDecodeAllKeysRecursively and encodeDecodeAllValuesRecursively.    *)
(***************************************************************************)
\* for k, v := range m, in the order the run time has chosen.
RangeOf(m, order) == SelectSeq(order, LAMBDA k : k \in DOMAIN m)

\* Step 1: the renames of one level, collected in the order of the visit.
RECURSIVE CollectRenames(_, _, _, _, _)
CollectRenames(m, ks, pathSoFar, provider, encodeMode) ==
    IF ks = <<>>
    THEN [err |-> FALSE, renames |-> <<>>]
    ELSE LET k == Head(ks)
             keyEncDec == KeyEncDecGetter(provider, Append(pathSoFar, k))
             newK == IF encodeMode
                     THEN [err |-> FALSE, key |-> KeyEncode(keyEncDec, k)]
                     ELSE KeyDecode(keyEncDec, k)
             rest == CollectRenames(m, Tail(ks), pathSoFar, provider, encodeMode)
         IN IF keyEncDec = "nil"
            THEN rest
            ELSE IF newK.err \/ rest.err
                 THEN [err |-> TRUE, renames |-> <<>>]
                 ELSE IF newK.key = k
                      THEN rest
                      ELSE [err |-> FALSE,
                            renames |-> <<[oldKey |-> k, newKey |-> newK.key, val |-> m[k]]>>
                                            \o rest.renames]

\* Step 2: the renames applied one after the other.
RECURSIVE ApplyRenames(_, _)
ApplyRenames(m, renames) ==
    IF renames = <<>>
    THEN m
    ELSE LET r == Head(renames)
         IN ApplyRenames(Put(Del(m, r.oldKey), r.newKey, r.val), Tail(renames))

\* Step 3: the recursion into the children that are maps, with the new key
\* in the path.
RECURSIVE encodeDecodeAllKeysRecursively(_, _, _, _, _)
encodeDecodeAllKeysRecursively(currentMap, pathSoFar, provider, encodeMode, order) ==
    LET col == CollectRenames(currentMap, RangeOf(currentMap, order), pathSoFar, provider,
                              encodeMode)
        renamed == ApplyRenames(currentMap, col.renames)
        child(k) == IF IsMap(renamed[k])
                    THEN encodeDecodeAllKeysRecursively(renamed[k].m, Append(pathSoFar, k),
                                                        provider, encodeMode, order)
                    ELSE [err |-> FALSE, m |-> renamed[k].m]
    IN IF provider = "none"
       THEN [err |-> FALSE, m |-> currentMap]
       ELSE IF col.err
            THEN [err |-> TRUE, m |-> currentMap]
            ELSE [err |-> \E k \in DOMAIN renamed : child(k).err,
                  m |-> [k \in DOMAIN renamed |->
                            [n |-> renamed[k].n, m |-> child(k).m]]]

\* A value with a codec for its path is replaced as a whole (by the string
\* on flush, by what the string decodes to on load; a value that is not a
\* string is left as it is); otherwise the children of a map are visited.
RECURSIVE encodeDecodeAllValuesRecursively(_, _, _, _)
encodeDecodeAllValuesRecursively(obj, pathSoFar, provider, encodeMode) ==
    IF ValueEncDecGetter(provider, pathSoFar)
    THEN IF encodeMode
         THEN TStr(obj)
         ELSE IF IsStr(obj) THEN obj.m["bytes"] ELSE obj
    ELSE IF ~IsMap(obj)
         THEN obj
         ELSE TMap([k \in DOMAIN obj.m |->
                      encodeDecodeAllValuesRecursively(obj.m[k], Append(pathSoFar, k),
                                                       provider, encodeMode)])

(***************************************************************************)
(* The file codec, flush and load.                                         *)
(***************************************************************************)
FileKeys == PlainKeys \cup {"YQ==", "Yg=="}

\* fileEncoderDecoder.Encode: the tree written out, one entry per path.
RECURSIVE FileEncode(_, _)
FileEncode(t, p) ==
    {[p |-> p, n |-> t.n, s |-> IF IsStr(t) THEN t.m["bytes"] ELSE TNum(0)]}
    \cup (IF IsMap(t)
          THEN UNION {FileEncode(t.m[k], Append(p, k)) : k \in DOMAIN t.m}
          ELSE {})

\* fileEncoderDecoder.Decode: the tree at path p of the content.
RECURSIVE FileDecode(_, _)
FileDecode(content, p) ==
    LET r == CHOOSE x \in content : x.p = p
    IN IF r.n = -1
       THEN TMap([k \in {x \in FileKeys : \E y \in content : y.p = Append(p, x)} |->
                     FileDecode(content, Append(p, k))])
       ELSE IF r.n = -2 THEN TStr(r.s) ELSE TNum(r.n)

\* The orders in which a range over a map may visit its keys.
Orders == {<<"a", "b", "YQ==", "Yg==">>, <<"Yg==", "YQ==", "b", "a">>}

\* flushUnlocked: a deep copy of store.data, the values encoded, then the
\* keys, then the file written.
KFlush(order) ==
    /\ kphase = "new"
    /\ LET tmpd == encodeDecodeAllValuesRecursively(kdoc, <<>>, kvals, TRUE)
           dataCopy == encodeDecodeAllKeysRecursively(tmpd.m, <<>>, kkeys, TRUE, order)
       IN kfile' = FileEncode(TMap(dataCopy.m), <<>>)
    /\ kphase' = "flushed"
    /\ UNCHANGED <<kdoc, kin, kkeys, kvals>>
    /\ UNCHANGED nonCodecVars

\* load: the file decoded into store.data, the keys decoded, then the values.
KLoad(order) ==
    /\ kphase = "flushed"
    /\ LET decoded == FileDecode(kfile, <<>>)
           keys == encodeDecodeAllKeysRecursively(decoded.m, <<>>, kkeys, FALSE, order)
           newObj == encodeDecodeAllValuesRecursively(TMap(keys.m), <<>>, kvals, FALSE)
       IN IF keys.err
          THEN /\ kdoc' = TMap(keys.m)
               /\ kphase' = "failed"
          ELSE /\ kdoc' = newObj
               /\ kphase' = "loaded"
    /\ UNCHANGED <<kin, kfile, kkeys, kvals>>
    /\ UNCHANGED nonCodecVars

MaxLeaf == 2
Leaves == {TNum(n) : n \in 1 .. MaxLeaf}
MapsOver(vals) == UNION {[ks -> vals] : ks \in SUBSET PlainKeys}
KDocs == {TMap(f) : f \in MapsOver(Leaves \cup {TMap(g) : g \in MapsOver(Leaves)})}

\* A store holding any document, with any of the providers.
InitCodec ==
    /\ kdoc \in KDocs
    /\ kin = kdoc
    /\ kfile = {}
    /\ kkeys \in KeyProviders
    /\ kvals \in ValueProviders
    /\ kphase = "new"

\* The variables of Part V while another part runs.
ParkedCodec ==
    /\ kdoc = TMap(NoEntries)
    /\ kin = kdoc
    /\ kfile = {}
    /\ kkeys = "none"
    /\ kvals = <<>>
    /\ kphase = "new"

NextCodec ==
    \/ \E order \in Orders : KFlush(order)
    \/ \E order \in Orders : KLoad(order)

(***************************************************************************)
(* C9: for every document and all key and value codec providers with       *)
(* bijective codecs, providers for selected paths and encoded keys below   *)
(* encoded keys included, loading what was flushed succeeds and gives the  *)
(* document that was flushed.                                              *)
(***************************************************************************)
C9_RoundTrip == kphase \in {"loaded", "failed"} => kphase = "loaded" /\ kdoc = kin

\* The document the flush began with, after the value codecs: what the key
\* transform of flushUnlocked is applied to.
KeyTransformInput == encodeDecodeAllValuesRecursively(kin, <<>>, kvals, TRUE)

\* The file a flush writes when the ranges over the maps visit the keys in the
\* given order.
FileWith(order) ==
    FileEncode(TMap(encodeDecodeAllKeysRecursively(KeyTransformInput.m, <<>>, kkeys,
                                                   TRUE, order).m), <<>>)

\* C34: for a fixed document and key codec provider the key transform gives the
\* same keys with the same values whatever order the keys of a mapping are visited
\* in, and loses no entry when the encoded name of one key is the original name of
\* another key of the same mapping.
C34_KeyTransformDeterministic ==
    kphase = "flushed" =>
        /\ \A order \in Orders : kfile = FileWith(order)
        /\ Cardinality(kfile) = Cardinality(FileEncode(KeyTransformInput, <<>>))

\* The part of C34 that holds: with a codec whose encoded names are no keys of the
\* document (base64 over the keys "a" and "b") the outcome does not depend on the
\* order and every entry is kept.
C34_DistinctNamesDeterministic ==
    (kphase = "flushed" /\ kkeys # "swap everywhere") =>
        /\ \A order \in Orders : kfile = FileWith(order)
        /\ Cardinality(kfile) = Cardinality(FileEncode(KeyTransformInput, <<>>))

(***************************************************************************)
(* Part VI (SpecDir): the cache of open file stores of a                   *)
(* MapDirectoryStore, used by several goroutines; other processes write    *)
(* the files.                                                              *)
(***************************************************************************)
MaxStores == 3
MaxVer == 2

DirGoroutines == {"t1", "t2"}
Paths == {"p", "q"}
NoCall == [name |-> "none", path |-> "p", createIfNotExists |-> FALSE]

\* store, ok := mds.openStores[filePath]
Cached(path) == {e.store : e \in {x \in openStores : x.path = path}}
\* mds.openStores[filePath] = store
CachePut(path, i) ==
    {e \in openStores : e.path # path} \cup {[path |-> path, store |-> i]}
\* delete(mds.openStores, filePath)
CacheDelete(path) == {e \in openStores : e.path # path}

LockIgnored(t) == TRUE

\* mds.openMu.Lock() returns when no goroutine holds the mutex.
CanLock(t) == openMu = "none"

\* A call of OpenFile, CloseFile, CloseAll or DeleteFile up to the point
\* where it has taken the mutex (DeleteFile: within its OpenFile).
DCall(t, name, path, createIfNotExists) ==
    /\ dpc[t] = "idle"
    /\ CanLock(t)
    /\ openMu' = t
    /\ dop' = [dop EXCEPT ![t] = [name |-> name, path |-> path,
                                  createIfNotExists |-> createIfNotExists]]
    /\ dpc' = [dpc EXCEPT ![t] = CASE name = "CloseFile" -> "close"
                                   [] name = "CloseAll" -> "close_all"
                                   [] OTHER -> "lookup"]
    /\ dstore' = [dstore EXCEPT ![t] = 0]
    /\ UNCHANGED <<openStores, nextStore, dloaded, snap, ddisk, nextVer, handed>>
    /\ UNCHANGED nonDirVars

\* OpenFile returns store i (0: an error) with the mutex released; DeleteFile goes on.
OpenReturns(t, i) ==
    /\ openMu' = "none"
    /\ dstore' = [dstore EXCEPT ![t] = i]
    /\ handed' = IF i = 0 THEN handed ELSE [handed EXCEPT ![dop[t].path] = @ \cup {i}]
    /\ IF dop[t].name = "DeleteFile" /\ i # 0
       THEN /\ dpc' = [dpc EXCEPT ![t] = "delete"]
            /\ UNCHANGED dop
       ELSE /\ dpc' = [dpc EXCEPT ![t] = "idle"]
            /\ dop' = [dop EXCEPT ![t] = NoCall]

\* OpenFile: the look-up in the cache.
DLookup(t) ==
    /\ dpc[t] = "lookup"
    /\ IF Cached(dop[t].path) # {}
       THEN OpenReturns(t, CHOOSE i \in Cached(dop[t].path) : TRUE)
       ELSE /\ dpc' = [dpc EXCEPT ![t] = "new"]
            /\ UNCHANGED <<openMu, dop, dstore, handed>>
    /\ UNCHANGED <<openStores, nextStore, dloaded, snap, ddisk, nextVer>>
    /\ UNCHANGED nonDirVars

\* OpenFile: NewMapFileStore (the file is created when it is absent and
\* createIfNotExists is set, then loaded), and the store put into the cache.
DNew(t) ==
    LET path == dop[t].path
        create == ddisk[path] = 0 /\ dop[t].createIfNotExists
        ver == IF create THEN nextVer + 1 ELSE ddisk[path]
        store == nextStore + 1
    IN /\ dpc[t] = "new"
       /\ IF ver = 0
          THEN /\ OpenReturns(t, 0)
               /\ UNCHANGED <<openStores, nextStore, dloaded, snap, ddisk, nextVer>>
          ELSE /\ nextStore < MaxStores
               /\ create => nextVer < MaxVer
               /\ nextStore' = store
               /\ ddisk' = [ddisk EXCEPT ![path] = ver]
               /\ nextVer' = IF create THEN nextVer + 1 ELSE nextVer
               /\ dloaded' = [dloaded EXCEPT ![store] = ver]
               /\ snap' = [snap EXCEPT ![store] = ver]
               /\ openStores' = CachePut(path, store)
               /\ OpenReturns(t, store)
       /\ UNCHANGED nonDirVars

\* DeleteFile: store.DeleteFile() on the store its OpenFile returned; on
\* success the call goes on to CloseFile.
DDeleteStore(t) ==
    LET path == dop[t].path
        i == dstore[t]
        conflict == snap[i] # 0 /\ ddisk[path] # 0 /\ ddisk[path] # snap[i]
    IN /\ dpc[t] = "delete"
       /\ IF conflict
          THEN /\ dpc' = [dpc EXCEPT ![t] = "idle"]
               /\ dop' = [dop EXCEPT ![t] = NoCall]
               /\ UNCHANGED <<ddisk, snap, dloaded>>
          ELSE /\ ddisk' = [ddisk EXCEPT ![path] = 0]
               /\ snap' = [snap EXCEPT ![i] = 0]
               /\ dloaded' = [dloaded EXCEPT ![i] = 0]
               /\ dpc' = [dpc EXCEPT ![t] = "close_lock"]
               /\ UNCHANGED dop
       /\ UNCHANGED <<openStores, openMu, dstore, nextStore, nextVer, handed>>
       /\ UNCHANGED nonDirVars

\* DeleteFile: the mutex taken by its CloseFile.
DCloseLock(t) ==
    /\ dpc[t] = "close_lock"
    /\ CanLock(t)
    /\ openMu' = t
    /\ dpc' = [dpc EXCEPT ![t] = "close"]
    /\ UNCHANGED <<openStores, dop, dstore, nextStore, dloaded, snap, ddisk, nextVer, handed>>
    /\ UNCHANGED nonDirVars

\* CloseFile: the store of the path leaves the cache, the mutex is released
\* and the store is closed, which changes nothing.
DCloseFile(t) ==
    /\ dpc[t] = "close"
    /\ openStores' = CacheDelete(dop[t].path)
    /\ handed' = IF Cached(dop[t].path) # {}
                 THEN [handed EXCEPT ![dop[t].path] = {}]
                 ELSE handed
    /\ openMu' = "none"
    /\ dpc' = [dpc EXCEPT ![t] = "idle"]
    /\ dop' = [dop EXCEPT ![t] = NoCall]
    /\ UNCHANGED <<dstore, nextStore, dloaded, snap, ddisk, nextVer>>
    /\ UNCHANGED nonDirVars

\* CloseAll: the cache is replaced by an empty one.
DCloseAll(t) ==
    /\ dpc[t] = "close_all"
    /\ openStores' = {}
    /\ handed' = [path \in Paths |-> IF Cached(path) # {} THEN {} ELSE handed[path]]
    /\ openMu' = "none"
    /\ dpc' = [dpc EXCEPT ![t] = "idle"]
    /\ dop' = [dop EXCEPT ![t] = NoCall]
    /\ UNCHANGED <<dstore, nextStore, dloaded, snap, ddisk, nextVer>>
    /\ UNCHANGED nonDirVars

\* Another process replaces the file at a path.
DExternalWrite(path) ==
    /\ nextVer < MaxVer
    /\ nextVer' = nextVer + 1
    /\ ddisk' = [ddisk EXCEPT ![path] = nextVer + 1]
    /\ UNCHANGED <<openStores, openMu, dpc, dop, dstore, nextStore, dloaded, snap, handed>>
    /\ UNCHANGED nonDirVars

InitDir ==
    /\ openStores = {}
    /\ openMu = "none"
    /\ dpc = [t \in DirGoroutines |-> "idle"]
    /\ dop = [t \in DirGoroutines |-> NoCall]
    /\ dstore = [t \in DirGoroutines |-> 0]
    /\ nextStore = 0
    /\ dloaded = [i \in 1..MaxStores |-> 0]
    /\ snap = [i \in 1..MaxStores |-> 0]
    /\ ddisk = [path \in Paths |-> 0]
    /\ nextVer = 0
    /\ handed = [path \in Paths |-> {}]

NextDir ==
    \/ \E t \in DirGoroutines, path \in Paths :
          \/ \E createIfNotExists \in BOOLEAN : DCall(t, "OpenFile", path, createIfNotExists)
          \/ DCall(t, "CloseFile", path, FALSE)
          \/ DCall(t, "DeleteFile", path, FALSE)
    \/ \E t \in DirGoroutines :
          \/ DCall(t, "CloseAll", "p", FALSE)
          \/ DLookup(t)
          \/ DNew(t)
          \/ DDeleteStore(t)
          \/ DCloseLock(t)
          \/ DCloseFile(t)
          \/ DCloseAll(t)
    \/ \E path \in Paths : DExternalWrite(path)

\* The step in which OpenFile returns a store for a path for which it has
\* returned none since the path was last evicted.
FirstOpenOf(path) == handed[path] = {} /\ handed'[path] # {}

\* C10: for each path, all OpenFile calls between two evictions of the path
\* (by CloseFile, CloseAll or DeleteFile) return one and the same store, also
\* when they run concurrently, and that store is the cached one; the cache
\* holds at most one store per path; the first OpenFile after an eviction
\* returns a store constructed in that call from the file on disk.
C10_Cache ==
    \A path \in Paths :
        /\ Cardinality(handed[path]) <= 1
        /\ Cardinality(Cached(path)) <= 1
        /\ handed[path] \subseteq Cached(path)

C10_NewAfterEviction ==
    \A path \in Paths :
        FirstOpenOf(path) =>
            /\ nextStore' = nextStore + 1
            /\ handed'[path] = {nextStore'}
            /\ Cached(path)' = {nextStore'}
            /\ dloaded'[nextStore'] = ddisk'[path]

C10_OneStorePerPath == []C10_Cache /\ [][C10_NewAfterEviction]_vars

\* OpenFile has returned store 1 for path p; p was evicted; the OpenFile
\* after the eviction has constructed store 2 from the file that another
\* process wrote meanwhile, and store 2 is the cached one.
C10_Witness ==
    /\ dstore["t1"] = 1
    /\ dpc["t1"] = "idle"
    /\ dstore["t2"] = 2
    /\ dpc["t2"] = "idle"
    /\ handed["p"] = {2}
    /\ Cached("p") = {2}
    /\ dloaded[2] = 2
    /\ ddisk["p"] = 2


(***************************************************************************)
(* Part VII (SpecList): MapDirectoryStore.ListFiles called again and again *)
(* with the token it returned, on a directory tree that does not change.   *)
(* File and directory names are compared through their position in         *)
(* FileNames and PartitionNames, which are in ascending order.             *)
(***************************************************************************)
MaxCalls == 7
DirPageSize == 3

FileNames == <<"a", "b">>
PartitionNames == <<"p1", "p2", "p3">>
BaseDir == ""
SortOrders == {"", "asc", "desc", "notasort"}
Prefixes == {"", "b"}
Providers == {"NoPartitionProvider", "MonthPartitionProvider"}

RangeOfSeq(q) == {q[k] : k \in 1..Len(q)}
Reverse(q) == [k \in 1..Len(q) |-> q[Len(q) + 1 - k]]

\* strings.HasPrefix(name, filenamePrefix)
HasPrefix(name, prefix) == prefix = "" \/ name = prefix

Dir(state, files) == [state |-> state, files |-> files]

NoFilter == [nil |-> TRUE, PartitionIndex |-> 0, FilterPartitions |-> <<>>]
NoTokenData == [FileIndex |-> 0, SortOrder |-> "", PageSize |-> 0, FilenamePrefix |-> "",
                PartitionListingPageToken |-> 0, PartitionFilterPageToken |-> NoFilter]

\* A page token: the empty string, or text that is base64 or not, of JSON
\* that is a token envelope or not.
EmptyToken == [empty |-> TRUE, base64 |-> FALSE, envelope |-> FALSE, data |-> NoTokenData]
\* base64.StdEncoding.EncodeToString(json.Marshal(nextToken))
EncodeToken(d) == [empty |-> FALSE, base64 |-> TRUE, envelope |-> TRUE, data |-> d]
BadTokens == {[empty |-> FALSE, base64 |-> FALSE, envelope |-> FALSE, data |-> NoTokenData],
              [empty |-> FALSE, base64 |-> TRUE, envelope |-> FALSE, data |-> NoTokenData]}

ListResult(entries, next, err) == [entries |-> entries, next |-> next, err |-> err]

\* ListDirs: the sub-directories of the base directory, sorted, from the
\* index in the token, at most pageSize of them.  A token is the index of
\* the first directory of the next page; 0 stands for the empty token.
ListDirs(sortOrder, pageToken, pageSize) ==
    LET asc == SelectSeq(PartitionNames, LAMBDA d : ltree[d].state # "missing")
        dirs == IF sortOrder = "desc" THEN Reverse(asc) ELSE asc
        end == IF pageToken + pageSize < Len(dirs) THEN pageToken + pageSize ELSE Len(dirs)
    IN IF sortOrder \notin {"asc", "desc"}
       THEN [partitions |-> <<>>, next |-> 0, err |-> TRUE]
       ELSE [partitions |-> SubSeq(dirs, pageToken + 1, end),
             next |-> IF end < Len(dirs) THEN end ELSE 0,
             err |-> FALSE]

\* partitionProvider.ListPartitions
ListPartitions(sortOrder, pageToken, pageSize) ==
    IF lprov = "NoPartitionProvider"
    THEN [partitions |-> <<BaseDir>>, next |-> 0, err |-> FALSE]
    ELSE ListDirs(sortOrder, pageToken, pageSize)

\* readPartitionFiles: the files of a partition that have the prefix, sorted
\* by name, descending when the sort order is "desc", ascending otherwise.
readPartitionFiles(partitionName, sortOrder, filenamePrefix) ==
    LET asc == SelectSeq(FileNames, LAMBDA f : /\ f \in ltree[partitionName].files
                                                /\ HasPrefix(f, filenamePrefix))
    IN IF ltree[partitionName].state # "ok"
       THEN [files |-> <<>>, err |-> TRUE]
       ELSE [files |-> IF sortOrder = "desc" THEN Reverse(asc) ELSE asc, err |-> FALSE]

FileEntry(partitionName, name) == [PartitionName |-> partitionName, Name |-> name]

\* token.PartitionFilterPageToken.PartitionIndex++
NextPartitionIndex(f) == [f EXCEPT !.PartitionIndex = @ + 1]

\* The loop of ListFiles over the partitions, from the state in token and
\* with the entries collected so far.
RECURSIVE ListLoop(_, _)
ListLoop(token, fileEntries) ==
    LET pfpt == token.PartitionFilterPageToken
        isFiltered == ~pfpt.nil
        listed == ListPartitions(token.SortOrder, token.PartitionListingPageToken, 1)
        over == IF isFiltered
                THEN pfpt.PartitionIndex >= Len(pfpt.FilterPartitions)
                ELSE ~listed.err /\ listed.partitions = <<>>
        partitionName == IF isFiltered
                         THEN pfpt.FilterPartitions[pfpt.PartitionIndex + 1]
                         ELSE listed.partitions[1]
        read == readPartitionFiles(partitionName, token.SortOrder, token.FilenamePrefix)
        \* the partition cannot be read: its index is stepped over
        skipped == IF read.err THEN NextPartitionIndex(pfpt) ELSE pfpt
        rest == IF token.FileIndex < Len(read.files)
                THEN SubSeq(read.files, token.FileIndex + 1, Len(read.files))
                ELSE <<>>
        all == fileEntries \o [k \in 1..Len(rest) |-> FileEntry(partitionName, rest[k])]
        \* the index j of the file whose entry is the first beyond the page
        j == token.FileIndex + (token.PageSize - Len(fileEntries))
        nextToken == [FileIndex |-> j,
                      SortOrder |-> token.SortOrder,
                      PageSize |-> token.PageSize,
                      FilenamePrefix |-> token.FilenamePrefix,
                      PartitionListingPageToken |->
                          IF isFiltered THEN 0 ELSE token.PartitionListingPageToken,
                      PartitionFilterPageToken |-> IF isFiltered THEN skipped ELSE NoFilter]
    IN IF ~isFiltered /\ listed.err THEN ListResult(<<>>, EmptyToken, "error")
       ELSE IF over THEN ListResult(fileEntries, EmptyToken, "none")
       ELSE IF read.err /\ ~isFiltered THEN ListResult(<<>>, EmptyToken, "panic")
       ELSE IF Len(all) > token.PageSize
            THEN ListResult(SubSeq(all, 1, token.PageSize), EncodeToken(nextToken), "none")
       ELSE IF isFiltered
            THEN ListLoop([token EXCEPT !.FileIndex = 0,
                                        !.PartitionFilterPageToken = NextPartitionIndex(skipped)],
                          all)
       ELSE IF listed.next = 0 THEN ListResult(all, EmptyToken, "none")
       ELSE ListLoop([token EXCEPT !.FileIndex = 0,
                                   !.PartitionListingPageToken = listed.next],
                     all)

\* The token ListFiles starts from when it is given no page token.
FirstToken(config) ==
    [FileIndex |-> 0,
     SortOrder |-> IF config.SortOrder = "" THEN "asc" ELSE config.SortOrder,
     PageSize |-> IF config.PageSize <= 0 THEN DirPageSize ELSE config.PageSize,
     FilenamePrefix |-> config.FilenamePrefix,
     PartitionListingPageToken |-> 0,
     PartitionFilterPageToken |->
         IF Len(config.FilterPartitions) > 0
         THEN [nil |-> FALSE, PartitionIndex |-> 0,
               FilterPartitions |-> config.FilterPartitions]
         ELSE NoFilter]

ListFiles(config, pageToken) ==
    IF pageToken.empty THEN ListLoop(FirstToken(config), <<>>)
    ELSE IF ~pageToken.base64 \/ ~pageToken.envelope
         THEN ListResult(<<>>, EmptyToken, "error")
    ELSE ListLoop(pageToken.data, <<>>)

\* One call of ListFiles of the listing, with the token of the call before.
ListFilesCall ==
    LET r == ListFiles(lcfg, ltoken)
    IN /\ lphase = "listing"
       /\ Len(lpages) < MaxCalls
       /\ lout' = lout \o r.entries
       /\ lpages' = Append(lpages, [n |-> Len(r.entries), more |-> ~r.next.empty])
       /\ ltoken' = r.next
       /\ lphase' = IF r.err # "none" THEN r.err
                    ELSE IF r.next.empty THEN "done" ELSE "listing"
       /\ UNCHANGED <<ltree, lprov, lcfg, lstart>>
       /\ UNCHANGED nonListVars

\* The filters: no partition, or partition names without repetition.
Filters ==
    {<<>>} \cup {q \in UNION {[1..n -> RangeOfSeq(PartitionNames)] : n \in 1..2} :
                    \A k, l \in 1..Len(q) : k # l => q[k] # q[l]}

Trees ==
    {t \in [RangeOfSeq(PartitionNames) \cup {BaseDir} ->
               {Dir("missing", {}), Dir("unreadable", {})}
                   \cup {Dir("ok", fs) : fs \in SUBSET RangeOfSeq(FileNames)}] :
        /\ t[BaseDir].state = "ok"
        /\ t[BaseDir].files \subseteq {"a"}
        /\ t["p3"].files \subseteq {"a"}}

InitList ==
    /\ ltree \in Trees
    /\ lprov \in Providers
    /\ lcfg \in [SortOrder : SortOrders, PageSize : {0, 1, 2}, FilterPartitions : Filters,
                 FilenamePrefix : Prefixes]
    /\ lstart \in {EmptyToken} \cup BadTokens
    /\ ltoken = lstart
    /\ lout = <<>>
    /\ lpages = <<>>
    /\ lphase = "listing"

ParkedList ==
    /\ ltree = [d \in RangeOfSeq(PartitionNames) \cup {BaseDir} |-> Dir("ok", {})]
    /\ lprov = "NoPartitionProvider"
    /\ lcfg = [SortOrder |-> "", PageSize |-> 0, FilterPartitions |-> <<>>,
               FilenamePrefix |-> ""]
    /\ lstart = EmptyToken
    /\ ltoken = EmptyToken
    /\ lout = <<>>
    /\ lpages = <<>>
    /\ lphase = "done"

NextList == ListFilesCall

\* The partitions a listing has to visit, in order: the readable ones of the
\* filter in the order of the filter; without filter the base directory
\* (NoPartitionProvider) or the readable sub-directories in sort order.
Readable(q) == SelectSeq(q, LAMBDA d : ltree[d].state = "ok")
Descending == lcfg.SortOrder = "desc"
WantedPartitions ==
    IF lcfg.FilterPartitions # <<>> THEN Readable(lcfg.FilterPartitions)
    ELSE IF lprov = "NoPartitionProvider" THEN <<BaseDir>>
    ELSE Readable(IF Descending THEN Reverse(PartitionNames) ELSE PartitionNames)

WantedFiles(d) ==
    LET asc == SelectSeq(FileNames, LAMBDA f : /\ f \in ltree[d].files
                                                /\ HasPrefix(f, lcfg.FilenamePrefix))
        files == IF Descending THEN Reverse(asc) ELSE asc
    IN [k \in 1..Len(files) |-> FileEntry(d, files[k])]

RECURSIVE Concat(_)
Concat(q) == IF q = <<>> THEN <<>> ELSE q[1] \o Concat(Tail(q))

\* Every matching file once, in the configured order.
Wanted == Concat([k \in 1..Len(WantedPartitions) |-> WantedFiles(WantedPartitions[k])])

IsPrefix(q, r) == Len(q) <= Len(r) /\ q = SubSeq(r, 1, Len(q))
WantedPageSize == IF lcfg.PageSize <= 0 THEN DirPageSize ELSE lcfg.PageSize
ValidListing == lstart = EmptyToken /\ lcfg.SortOrder # "notasort"

\* C11: on an unchanged tree, for any page size, valid sort order, prefix and
\* partition filter, the calls of a listing return the matching files once
\* each and in the configured order (what has been returned is at all times
\* a prefix of that list and the whole list when the token is empty), no
\* call fails, every page that comes with a token holds exactly pageSize
\* entries, and the call that returns the last matching file returns an
\* empty token.
C11_ListingComplete ==
    ValidListing =>
        /\ lphase \in {"listing", "done"}
        /\ IsPrefix(lout, Wanted)
        /\ lphase = "done" => lout = Wanted
        /\ lpages # <<>> /\ lout = Wanted => lphase = "done"
        /\ \A k \in 1..Len(lpages) : lpages[k].more => lpages[k].n = WantedPageSize

\* The same for the listings whose filter names only readable partitions and
\* that meet no unreadable directory.
C11_ReadableOnly ==
    (\A d \in RangeOfSeq(PartitionNames) :
        ltree[d].state = "unreadable" => lcfg.FilterPartitions # <<>>)
    /\ (\A d \in RangeOfSeq(lcfg.FilterPartitions) : ltree[d].state = "ok")
    => C11_ListingComplete

\* C12: with filterPartitions set, a listing returns exactly the files of the
\* readable partitions of the list, in list order; a missing or unreadable
\* partition of the list makes no call fail and no other partition of the
\* list is left out because of it.
C12_FilterSkipsOnlyUnreadable ==
    ValidListing /\ lcfg.FilterPartitions # <<>> =>
        /\ lphase \in {"listing", "done"}
        /\ lphase = "done" =>
               \A d \in RangeOfSeq(Readable(lcfg.FilterPartitions)) :
                   SelectSeq(lout, LAMBDA e : e.PartitionName = d) = WantedFiles(d)

\* The part of C12 about the partition itself: a listing whose filter names
\* partitions that cannot be read ends without error.
C12_NoErrorOnUnreadable ==
    ValidListing /\ lcfg.FilterPartitions # <<>> => lphase \in {"listing", "done"}

\* C13: a call of ListFiles with a page token that is not base64 or not a
\* token envelope, or with a sort order that is neither ascending nor
\* descending, returns an error and no entries, with either partition
\* provider and with or without filterPartitions.
C13_BadInputRejected ==
    lpages # <<>> /\ (lstart \in BadTokens \/ lcfg.SortOrder = "notasort") =>
        lphase = "error" /\ lout = <<>>

\* The part of C13 about the page token.
C13_BadTokenRejected ==
    lpages # <<>> /\ lstart \in BadTokens => lphase = "error" /\ lout = <<>>


\* C38: without filterPartitions, when a partition the partition provider returned
\* cannot be read, ListFiles skips it or returns an error; it never crashes.
C38_NoCrashWithoutFilter ==
    lcfg.FilterPartitions = <<>> => lphase # "panic"

\* The part of C38 that holds: a call crashes only without filter, on a partition
\* that the provider listed and that cannot be read; with a filter, and on trees
\* whose listed partitions are readable, no call crashes.
C38_CrashOnlyOnUnreadable ==
    lphase = "panic" =>
        /\ lcfg.FilterPartitions = <<>>
        /\ lprov = "MonthPartitionProvider"
        /\ \E d \in RangeOfSeq(PartitionNames) : ltree[d].state = "unreadable"

(***************************************************************************)
(* Part VIII (SpecEngine): goroutines calling Upsert, BatchUpsert, Delete  *)
(* and BatchDelete on one ftsengine.Engine.  The table has the external id *)
(* and two columns, cmp and val; SQLite keeps the rowid unique and gives a *)
(* row inserted without rowid the largest rowid of the table plus one.     *)
(***************************************************************************)
MaxRid == 3
MaxCmp == 2

EngineGoroutines == {"t1", "t2"}
Ids == {"", "x", "y"}
CmpVals == 1..MaxCmp
DocsOf(ids, cmps) == [id : ids, cmp : cmps, val : {1}]
\* docs map[string]map[string]string: one document per id
Batches(ids, cmps) ==
    {b \in SUBSET DocsOf(ids, cmps) : \A d1, d2 \in b : d1.id = d2.id => d1 = d2}
NoEngineCall == [name |-> "none", docs |-> {}, ids |-> {}, rowid |-> 0]

SetMax(S) == CHOOSE m \in S : \A n \in S : n <= m
SetMin(S) == CHOOSE m \in S : \A n \in S : m <= n

\* SELECT rowid FROM t WHERE externalid=?, first row: 0 when there is none
RowIDOf(tbl, id) ==
    IF \E r \in tbl : r.id = id THEN SetMin({r.rid : r \in {x \in tbl : x.id = id}}) ELSE 0
NextRowID(tbl) == IF tbl = {} THEN 1 ELSE SetMax({r.rid : r \in tbl}) + 1
Row(rid, d) == [rid |-> rid, id |-> d.id, cmp |-> d.cmp, val |-> d.val]

\* internalUpsert after the look-up: INSERT OR REPLACE with the rowid of the
\* existing row, INSERT otherwise.
InsertOrReplace(tbl, d, rowid) ==
    IF rowid > 0
    THEN {r \in tbl : r.rid # rowid} \cup {Row(rowid, d)}
    ELSE tbl \cup {Row(NextRowID(tbl), d)}

\* The loop of BatchUpsert over the documents, in the order q, inside the
\* transaction: it stops at the first document internalUpsert rejects, with
\* the documents before it written.
RECURSIVE UpsertAll(_, _)
UpsertAll(tbl, q) ==
    IF q = <<>> THEN [table |-> tbl, err |-> FALSE]
    ELSE IF q[1].id = "" THEN [table |-> tbl, err |-> TRUE]
    ELSE UpsertAll(InsertOrReplace(tbl, q[1], RowIDOf(tbl, q[1].id)), Tail(q))

\* commit without tx.Rollback.
CommitAlways(before, tx) == tx

\* commit(err): tx.Rollback when the loop failed, tx.Commit otherwise.
commit(before, tx) == IF tx.err THEN [table |-> before, err |-> TRUE] ELSE tx

\* The orders in which a Go map of documents can be ranged over.
OrdersOf(b) ==
    {q \in [1..Cardinality(b) -> b] : \A k, l \in 1..Cardinality(b) : k # l => q[k] # q[l]}

\* BatchUpsert: one transaction over the documents in the order q.
BatchUpsert(tbl, q) == commit(tbl, UpsertAll(tbl, q))

\* DELETE FROM t WHERE externalid IN (ids)
BatchDelete(tbl, ids) == {r \in tbl : r.id \notin ids}

EngineUnlocked(t) == TRUE

\* e.mu.Lock() returns when no goroutine holds e.mu.
CanLockEngine(t) == emu = "none"

EReturn(t, err) ==
    /\ emu' = "none"
    /\ epc' = [epc EXCEPT ![t] = "idle"]
    /\ eres' = [eres EXCEPT ![t] = IF err THEN "error" ELSE "ok"]
    /\ UNCHANGED eop

\* A call up to the point where it holds e.mu.
ECall(t, name, docs, ids) ==
    /\ epc[t] = "idle"
    /\ CanLockEngine(t)
    /\ emu' = t
    /\ eop' = [eop EXCEPT ![t] = [name |-> name, docs |-> docs, ids |-> ids, rowid |-> 0]]
    /\ epc' = [epc EXCEPT ![t] = IF name = "Upsert" THEN "lookup" ELSE "body"]
    /\ eres' = [eres EXCEPT ![t] = "none"]
    /\ UNCHANGED etable
    /\ UNCHANGED nonEngineVars

\* Upsert, internalUpsert: the id is checked and the rowid of the id looked up.
EUpsertLookup(t) ==
    LET d == CHOOSE x \in eop[t].docs : TRUE
    IN /\ epc[t] = "lookup"
       /\ IF d.id = ""
          THEN EReturn(t, TRUE)
          ELSE /\ eop' = [eop EXCEPT ![t].rowid = RowIDOf(etable, d.id)]
               /\ epc' = [epc EXCEPT ![t] = "write"]
               /\ UNCHANGED <<emu, eres>>
       /\ UNCHANGED etable
       /\ UNCHANGED nonEngineVars

\* Upsert, internalUpsert: the INSERT or INSERT OR REPLACE.
EUpsertWrite(t) ==
    LET d == CHOOSE x \in eop[t].docs : TRUE
    IN /\ epc[t] = "write"
       /\ eop[t].rowid = 0 => NextRowID(etable) <= MaxRid
       /\ etable' = InsertOrReplace(etable, d, eop[t].rowid)
       /\ EReturn(t, FALSE)
       /\ UNCHANGED nonEngineVars

EBatchUpsert(t) ==
    /\ epc[t] = "body"
    /\ eop[t].name = "BatchUpsert"
    /\ \E q \in OrdersOf(eop[t].docs) :
          LET r == BatchUpsert(etable, q)
          IN /\ \A x \in r.table : x.rid <= MaxRid
             /\ etable' = r.table
             /\ EReturn(t, r.err)
    /\ UNCHANGED nonEngineVars

\* Delete and BatchDelete.
EDelete(t) ==
    /\ epc[t] = "body"
    /\ eop[t].name \in {"Delete", "BatchDelete"}
    /\ etable' = BatchDelete(etable, eop[t].ids)
    /\ EReturn(t, FALSE)
    /\ UNCHANGED nonEngineVars

\* The engine with no call in progress on a table that holds the rows tbl.
EngineWith(tbl) ==
    /\ etable = tbl
    /\ emu = "none"
    /\ epc = [t \in EngineGoroutines |-> "idle"]
    /\ eop = [t \in EngineGoroutines |-> NoEngineCall]
    /\ eres = [t \in EngineGoroutines |-> "none"]

InitEngine ==
    /\ etable = {}
    /\ emu = "none"
    /\ epc = [t \in EngineGoroutines |-> "idle"]
    /\ eop = [t \in EngineGoroutines |-> NoEngineCall]
    /\ eres = [t \in EngineGoroutines |-> "none"]

NextEngine ==
    \E t \in EngineGoroutines :
        \/ \E d \in DocsOf(Ids, CmpVals) : ECall(t, "Upsert", {d}, {})
        \/ \E b \in Batches(Ids, {MaxCmp}) \ {{}} : ECall(t, "BatchUpsert", b, {})
        \/ \E id \in Ids : ECall(t, "Delete", {}, {id})
        \/ \E ids \in SUBSET Ids \ {{}} : ECall(t, "BatchDelete", {}, ids)
        \/ EUpsertLookup(t)
        \/ EUpsertWrite(t)
        \/ EBatchUpsert(t)
        \/ EDelete(t)

\* The step in which goroutine t finishes an Upsert or BatchUpsert.
UpsertReturns(t) ==
    /\ epc[t] \in {"lookup", "write", "body"}
    /\ epc'[t] = "idle"
    /\ eop[t].name \in {"Upsert", "BatchUpsert"}

C14_OneRowPerId ==
    /\ \A r1, r2 \in etable : r1.id = r2.id => r1 = r2
    /\ \A r \in etable : r.id # ""

C14_UpsertStep ==
    \A t \in EngineGoroutines :
        UpsertReturns(t) =>
            IF \E d \in eop[t].docs : d.id = ""
            THEN etable' = etable /\ eres'[t] = "error"
            ELSE /\ eres'[t] = "ok"
                 /\ \A d \in eop[t].docs :
                       /\ \E r \in etable' : r.id = d.id /\ r.cmp = d.cmp /\ r.val = d.val
                       /\ \A r \in etable :
                             r.id = d.id => Row(r.rid, d) \in etable'
                 /\ \A r \in etable :
                       (\A d \in eop[t].docs : d.id # r.id) => r \in etable'

\* C14: whatever Upsert, BatchUpsert, Delete and BatchDelete calls the
\* goroutines make on one engine, the table never holds two rows with one
\* external id and none with an empty id; an upsert of ids that are present
\* replaces their values and keeps their rowids and leaves the other rows
\* alone, and an upsert with an empty id returns an error and leaves the
\* table as it was.
C14_UniqueIds == []C14_OneRowPerId /\ [][C14_UpsertStep]_vars

\* A row has been replaced under its rowid while another goroutine is inside
\* an Upsert, and the table holds a second row.
C14_Witness ==
    /\ \E r \in etable : r.id = "x" /\ r.rid = 1 /\ r.cmp = 2
    /\ \E r \in etable : r.id = "y" /\ r.rid = 2
    /\ eres["t1"] = "ok"
    /\ eop["t1"].name = "Upsert"
    /\ eop["t1"].rowid = 1
    /\ epc["t2"] = "write"

\* The step in which goroutine t returns from BatchUpsert.
BatchUpsertReturns(t) ==
    /\ epc[t] = "body"
    /\ epc'[t] = "idle"
    /\ eop[t].name = "BatchUpsert"

\* C22: a BatchUpsert with a document that is rejected (one with an empty id)
\* returns an error and leaves the table, which is what Search, BatchList and
\* IsEmpty read, exactly as it was before the call; a BatchUpsert without one
\* succeeds and every document of the batch is in the table.
C22_AllOrNothing ==
    [][\A t \in EngineGoroutines :
          BatchUpsertReturns(t) =>
              IF \E d \in eop[t].docs : d.id = ""
              THEN eres'[t] = "error" /\ etable' = etable
              ELSE /\ eres'[t] = "ok"
                   /\ \A d \in eop[t].docs :
                         \E r \in etable' : r.id = d.id /\ r.cmp = d.cmp /\ r.val = d.val]_vars

\* A BatchUpsert of a new document, a changed document and a document without
\* id has failed, and the table holds the old row only.
C22_Witness ==
    \E t \in EngineGoroutines :
        /\ eop[t].name = "BatchUpsert"
        /\ eres[t] = "error"
        /\ epc[t] = "idle"
        /\ {d.id : d \in eop[t].docs} = {"", "x", "y"}
        /\ {r.id : r \in etable} = {"x"}
        /\ \A r \in etable : r.cmp # MaxCmp
        /\ \A u \in EngineGoroutines \ {t} : epc[u] = "idle" /\ eres[u] # "none"

(***************************************************************************)
(* Part IX (SpecPage): BatchList, or Search, called again and again with   *)
(* the token it returned, on a table that does not change.  The text of    *)
(* the compare column is a number, 0 being the empty string, compared as   *)
(* SQLite compares the text.  The val column of a row tells how the row    *)
(* fares with the query: 0, it does not match; otherwise it matches and    *)
(* val is its bm25 score.                                                  *)
(***************************************************************************)
defaultListPageSize == 1000
maxListPageSize == 10000
defaultSearchPageSize == 10

PageSizes == {0, 1, 2}
Query == "q"
IdOfRid == <<"x", "y", "z">>

PageResult(rows, next) == [rows |-> rows, next |-> next]
\* A page token is a string: enc says what it is ("json": the base64 of a
\* JSON object with the fields that follow), the other fields what it carries.
NoPageToken == [empty |-> TRUE, enc |-> "", c |-> 0, r |-> 0, q |-> "", o |-> 0]
\* base64(json({c, r})) of BatchList and base64(json({q, o})) of Search
ListToken(c, r) == [empty |-> FALSE, enc |-> "json", c |-> c, r |-> r, q |-> "", o |-> 0]
SearchToken(q, o) == [empty |-> FALSE, enc |-> "json", c |-> 0, r |-> 0, q |-> q, o |-> o]

\* Tokens Search has issued for another query.
OtherQuery == "other"
ForeignTokens == {SearchToken(OtherQuery, o) : o \in 1..2}

\* Tokens that cannot be decoded: a string that is not base64 ("raw"), the
\* base64 of bytes that are not JSON ("notjson"), and the base64 of
\* {"q": "q", "o": "1"}, whose offset is a string ("typeerr").  The first two
\* are the token for offset 1 of the query with a character changed.
BadSearchTokens ==
    {[empty |-> FALSE, enc |-> e, c |-> 0, r |-> 0, q |-> Query, o |-> 1] :
        e \in {"raw", "notjson", "typeerr"}}

\* The decoding that takes the fields of the token whatever the token is.
DecodeAnyToken(pageToken) == [Query |-> pageToken.q, Offset |-> pageToken.o]

\* base64.DecodeString and json.Unmarshal into t, their errors dropped: t keeps
\* its zero value unless the token is base64 of valid JSON, and a field of the
\* wrong type keeps its zero value too.
DecodeSearchToken(pageToken) ==
    CASE pageToken.enc = "json" -> [Query |-> pageToken.q, Offset |-> pageToken.o]
      [] pageToken.enc = "typeerr" -> [Query |-> pageToken.q, Offset |-> 0]
      [] OTHER -> [Query |-> "", Offset |-> 0]

\* ORDER BY key, rowid: key[r] is the first sort key of row r.
RECURSIVE OrderBy(_, _)
OrderBy(S, key) ==
    IF S = {} THEN <<>>
    ELSE LET first == CHOOSE r \in S :
                          \A x \in S : \/ key[r] < key[x]
                                       \/ key[r] = key[x] /\ r.rid <= x.rid
         IN <<first>> \o OrderBy(S \ {first}, key)

FirstRows(q, n) == SubSeq(q, 1, IF n < Len(q) THEN n ELSE Len(q))

AfterCmpOnly(r, byRowID, lastCmp, lastRID) ==
    IF byRowID THEN r.rid > lastRID ELSE r.cmp > lastCmp

\* WHERE rowid>?, or WHERE (cmp>? OR (cmp=? AND rowid>?))
After(r, byRowID, lastCmp, lastRID) ==
    IF byRowID
    THEN r.rid > lastRID
    ELSE \/ r.cmp > lastCmp
         \/ r.cmp = lastCmp /\ r.rid > lastRID

BatchList(tbl, compareColumn, pageToken, pageSize) ==
    LET size == IF pageSize <= 0 THEN defaultListPageSize
                ELSE IF pageSize > maxListPageSize THEN maxListPageSize ELSE pageSize
        byRowID == compareColumn \in {"", "rowid"}
        lastCmp == IF pageToken.empty THEN 0 ELSE pageToken.c
        lastRID == IF pageToken.empty THEN 0 ELSE pageToken.r
        Key == [r \in tbl |-> IF byRowID THEN r.rid ELSE r.cmp]
        selected == {r \in tbl : After(r, byRowID, lastCmp, lastRID)}
        fetched == FirstRows(OrderBy(selected, Key), size + 1)
        haveMore == Len(fetched) > size
        rows == FirstRows(fetched, size)
        last == rows[Len(rows)]
    IN PageResult(rows,
                  IF haveMore
                  THEN ListToken(IF byRowID THEN lastCmp ELSE last.cmp, last.rid)
                  ELSE NoPageToken)

Search(tbl, query, pageToken, pageSize) ==
    LET size == IF pageSize <= 0 \/ pageSize > maxListPageSize
                THEN defaultSearchPageSize ELSE pageSize
        t == DecodeSearchToken(pageToken)
        offset == IF ~pageToken.empty /\ t.Query = query THEN t.Offset ELSE 0
        Score == [r \in tbl |-> r.val]
        matching == OrderBy({r \in tbl : r.val # 0}, Score)
        to == IF offset + size < Len(matching) THEN offset + size ELSE Len(matching)
        hits == SubSeq(matching, offset + 1, to)
    IN PageResult(hits,
                  IF Len(hits) = size THEN SearchToken(query, offset + size) ELSE NoPageToken)

PageReturned(r) ==
    /\ pphase = "paging"
    /\ pout' = pout \o r.rows
    /\ ppages' = Append(ppages, [n |-> Len(r.rows), more |-> ~r.next.empty])
    /\ ptoken' = r.next
    /\ pphase' = IF r.next.empty THEN "done" ELSE "paging"
    /\ UNCHANGED <<pkind, pcol, psize, pstart>>
    /\ UNCHANGED nonPageVars

BatchListCall ==
    /\ pkind = "BatchList"
    /\ PageReturned(BatchList(etable, pcol, ptoken, psize))

SearchCall ==
    /\ pkind = "Search"
    /\ PageReturned(Search(etable, Query, ptoken, psize))

\* The tables: every rowid at most once, every id at most once.
Tables ==
    UNION {{{[rid |-> k, id |-> IdOfRid[k], cmp |-> f[k].cmp, val |-> f[k].val] : k \in rids} :
               f \in [rids -> [cmp : 0..MaxCmp, val : 0..2]]} :
           rids \in SUBSET (1..MaxRid)}

InitPage ==
    /\ pkind \in {"BatchList", "Search"}
    /\ pcol \in IF pkind = "BatchList" THEN {"", "rowid", "cmp"} ELSE {""}
    /\ psize \in PageSizes
    /\ pstart \in {NoPageToken} \cup (IF pkind = "Search"
                                      THEN ForeignTokens \cup BadSearchTokens ELSE {})
    /\ ptoken = pstart
    /\ pout = <<>>
    /\ ppages = <<>>
    /\ pphase = "paging"

ParkedPage ==
    /\ pkind = "BatchList"
    /\ pcol = ""
    /\ psize = 0
    /\ pstart = NoPageToken
    /\ ptoken = NoPageToken
    /\ pout = <<>>
    /\ ppages = <<>>
    /\ pphase = "done"

NextPage == BatchListCall \/ SearchCall

\* pout is in ascending order of (key, rowid), without repetition.
InOrder(key(_)) ==
    \A k, l \in 1..Len(pout) :
        k < l => \/ key(pout[k]) < key(pout[l])
                 \/ key(pout[k]) = key(pout[l]) /\ pout[k].rid < pout[l].rid

CmpOrRowID(r) == IF pcol = "cmp" THEN r.cmp ELSE r.rid
BM25(r) == r.val
Matching == {r \in etable : r.val # 0}
LastPage == ppages[Len(ppages)]

\* C19: on an unchanged table the BatchList calls of a listing return rows
\* of the table in ascending order of (compare column, rowid), or of rowid
\* when there is no compare column, each at most once and, when the token
\* comes back empty, all of them; a call returns a token exactly when rows
\* remain that no call has returned yet.
C19_BatchListComplete ==
    pkind = "BatchList" =>
        /\ RangeOfSeq(pout) \subseteq etable
        /\ InOrder(CmpOrRowID)
        /\ pphase = "done" => RangeOfSeq(pout) = etable
        /\ ppages # <<>> => (LastPage.more <=> Len(pout) < Cardinality(etable))

\* Three rows came in two pages; the first page ended between two rows with
\* the same compare value.
C19_Witness ==
    /\ pkind = "BatchList"
    /\ pcol = "cmp"
    /\ pphase = "done"
    /\ Len(ppages) = 2
    /\ Len(pout) = 3
    /\ pout[2].cmp = pout[3].cmp
    /\ pout[1].rid > pout[2].rid

\* C20: on an unchanged index the Search calls of one query return matching
\* documents in rank order, each at most once and, when the token comes back
\* empty, all of them; a call returns a token only when matching documents
\* remain that no call has returned yet.
C20_SearchComplete ==
    pkind = "Search" =>
        /\ RangeOfSeq(pout) \subseteq Matching
        /\ InOrder(BM25)
        /\ pphase = "done" => RangeOfSeq(pout) = Matching
        /\ ppages # <<>> /\ LastPage.more => Len(pout) < Cardinality(Matching)

\* C20 without its statement about the token.
C20_EveryMatchOnce ==
    pkind = "Search" =>
        /\ RangeOfSeq(pout) \subseteq Matching
        /\ InOrder(BM25)
        /\ pphase = "done" => RangeOfSeq(pout) = Matching

\* The first page of the results of Query: the matching rows in rank order,
\* up to the page size.
SearchPageSize == IF psize <= 0 THEN defaultSearchPageSize ELSE psize
FirstPage == FirstRows(OrderBy(Matching, [r \in Matching |-> r.val]), SearchPageSize)

\* C28: a Search that is given a token issued for another query, or a token
\* that cannot be decoded, returns what it returns without a token: the first
\* page of the results of its query (and no error, which the model's Search
\* has only for an empty query).
C28_TokenIgnored ==
    (pkind = "Search" /\ pstart # NoPageToken /\ ppages # <<>>)
        => /\ SubSeq(pout, 1, ppages[1].n) = FirstPage
           /\ ppages[1].n = Len(FirstPage)

\* A listing that began with the token of another query has returned the two
\* matching rows in two pages.
C28_Witness ==
    /\ pkind = "Search"
    /\ pstart \in ForeignTokens
    /\ pstart.o = 1
    /\ psize = 1
    /\ Len(ppages) >= 2
    /\ Len(pout) = 2
    /\ ppages[1].n = 1

(***************************************************************************)
(* Part X (SpecSync): passes of SyncIterToFTS over one index, by two       *)
(* producers one after the other.  The iterator of a pass emits any        *)
(* decision for any id, each id at most once; BatchUpsert and BatchDelete  *)
(* can fail, and so can the iterator.                                      *)
(***************************************************************************)
MaxPasses == 2
MaxSyncRid == 4
defaultBatchSize == 1000
listPage == 10000

Producers == {"A", "B"}
SyncIds == {"x", "y", "z"}
BatchSizes == {0, 1, 2}
\* belongs(id) of a producer
Belongs(p, id) == IF p = "A" THEN id \in {"x", "y"} ELSE id = "z"

\* A SyncDecision: ID, CmpOut, Vals["val"], Unchanged, Skip.
Decision(id, kind, cmp, val) == [id |-> id, kind |-> kind, cmp |-> cmp, val |-> val]
Decisions ==
    {Decision(id, kind, 0, 0) : id \in SyncIds, kind \in {"Skip", "Unchanged"}}
        \cup {Decision(id, "Upsert", MaxCmp, 2) : id \in SyncIds \cup {""}}

IdsIn(S) == {r.id : r \in S}

\* The loop of SyncIterToFTS that reads the index page by page into existing.
RECURSIVE ListAll(_, _, _)
ListAll(tbl, token, acc) ==
    LET page == BatchList(tbl, "cmp", token, listPage)
        read == acc \cup {[id |-> page.rows[k].id, cmp |-> page.rows[k].cmp] :
                            k \in 1..Len(page.rows)}
    IN IF page.next.empty THEN read ELSE ListAll(tbl, page.next, read)

SeenAlso(seen, dec) == seen \cup {dec.id}

\* seenNow after emit(dec)
Seen(seen, dec) == IF dec.kind = "Skip" \/ dec.id = "" THEN seen ELSE seen \cup {dec.id}

\* pending after emit(dec), before a flush
Pending(pend, dec) ==
    IF dec.kind # "Upsert" \/ dec.id = ""
    THEN pend
    ELSE {d \in pend : d.id # dec.id} \cup {[id |-> dec.id, cmp |-> dec.cmp, val |-> dec.val]}

BatchSize == IF sbatch <= 0 THEN defaultBatchSize ELSE sbatch

PendingKept(pend) == pend

\* pending after a successful flush
Flushed(pend) == {}

ErrorIgnored(failed, next) == next

\* where the pass goes after a call that can fail
OnError(failed, next) == IF failed THEN "failed" ELSE next

ToDeleteAnyOwner(ex, seen, p) == {id \in IdsIn(ex) : id \notin seen}

\* toDelete: the ids of existing that belong to the producer and were not seen
ToDelete(ex, seen, p) == {id \in IdsIn(ex) : Belongs(p, id) /\ id \notin seen}

\* flush(): BatchUpsert(pending), which fails or writes the documents in
\* some order, and what it leaves in pending.
flush(pend, next) ==
    IF pend = {}
    THEN /\ spc' = next
         /\ UNCHANGED <<etable, pending, swrites>>
    ELSE \E failed \in BOOLEAN, q \in OrdersOf(pend) :
            LET r == BatchUpsert(etable, q)
            IN /\ \A x \in r.table : x.rid <= MaxSyncRid
               /\ spc' = OnError(failed \/ r.err, next)
               /\ IF failed \/ r.err
                  THEN UNCHANGED <<etable, swrites>> /\ pending' = pend
                  ELSE /\ etable' = r.table
                       /\ pending' = Flushed(pend)
                       /\ swrites' = [id \in SyncIds |->
                                         swrites[id] + IF id \in IdsIn(pend) THEN 1 ELSE 0]

\* SyncIterToFTS up to the call of the iterator.
SyncStart(p, batchSize) ==
    /\ spc \in {"idle", "done", "failed"}
    /\ spasses < MaxPasses
    /\ spasses' = spasses + 1
    /\ sprod' = p
    /\ sbatch' = batchSize
    /\ existing' = ListAll(etable, NoPageToken, {})
    /\ seenNow' = {}
    /\ pending' = {}
    /\ semitted' = {}
    /\ sbefore' = etable
    /\ swrites' = [id \in SyncIds |-> 0]
    /\ spc' = "iter"
    /\ UNCHANGED etable
    /\ UNCHANGED nonSyncTableVars

\* The iterator calls emit(dec), for an id it has not emitted yet.
Emit(dec) ==
    /\ spc = "iter"
    /\ dec.id \notin IdsIn(semitted)
    /\ semitted' = semitted \cup {dec}
    /\ seenNow' = Seen(seenNow, dec)
    /\ IF dec.kind = "Upsert" /\ dec.id # "" /\ Cardinality(Pending(pending, dec)) >= BatchSize
       THEN flush(Pending(pending, dec), "iter")
       ELSE /\ pending' = Pending(pending, dec)
            /\ UNCHANGED <<etable, swrites, spc>>
    /\ UNCHANGED <<sprod, sbatch, existing, sbefore, spasses>>
    /\ UNCHANGED nonSyncTableVars

\* The iterator returns an error.
IterFails ==
    /\ spc = "iter"
    /\ spc' = "failed"
    /\ UNCHANGED <<etable, sprod, sbatch, existing, seenNow, pending, semitted, sbefore, swrites,
                   spasses>>
    /\ UNCHANGED nonSyncTableVars

\* The iterator returns nil, and what is pending is flushed.
IterDone ==
    /\ spc = "iter"
    /\ flush(pending, "delete")
    /\ UNCHANGED <<sprod, sbatch, existing, seenNow, semitted, sbefore, spasses>>
    /\ UNCHANGED nonSyncTableVars

\* The deletion of the vanished documents, which can fail.
SyncDelete ==
    /\ spc = "delete"
    /\ \E failed \in BOOLEAN :
          LET toDelete == ToDelete(existing, seenNow, sprod)
              fails == failed /\ toDelete # {}
          IN /\ etable' = IF fails THEN etable ELSE BatchDelete(etable, toDelete)
             /\ spc' = OnError(fails, "done")
    /\ UNCHANGED <<sprod, sbatch, existing, seenNow, pending, semitted, sbefore, swrites, spasses>>
    /\ UNCHANGED nonSyncTableVars

SyncTables == {{[rid |-> k, id |-> IdOfRid[k], cmp |-> 1, val |-> 1] : k \in rids} :
                  rids \in SUBSET (1..3)}

InitSync ==
    /\ sprod = "A"
    /\ sbatch = 0
    /\ spc = "idle"
    /\ existing = {}
    /\ seenNow = {}
    /\ pending = {}
    /\ semitted = {}
    /\ sbefore = {}
    /\ swrites = [id \in SyncIds |-> 0]
    /\ spasses = 0

NextSync ==
    \/ \E p \in Producers, batchSize \in BatchSizes : SyncStart(p, batchSize)
    \/ \E dec \in Decisions : Emit(dec)
    \/ IterFails
    \/ IterDone
    \/ SyncDelete

EmittedAs(kind) == {dec \in semitted : dec.kind = kind /\ dec.id # ""}
RowsOf(tbl, id) == {[cmp |-> r.cmp, val |-> r.val] : r \in {x \in tbl : x.id = id}}

\* After a successful pass every upserted id has the emitted values, and
\* every unchanged id the values it had when the pass began.
UpsertedAndUnchanged ==
    /\ \A dec \in EmittedAs("Upsert") :
          RowsOf(etable, dec.id) = {[cmp |-> dec.cmp, val |-> dec.val]}
    /\ \A dec \in EmittedAs("Unchanged") : RowsOf(etable, dec.id) = RowsOf(sbefore, dec.id)

NoRowDeleted == IdsIn(etable) \subseteq IdsIn(etable')

C16_NoDeletionBefore ==
    spc \in {"iter", "delete", "failed"} => IdsIn(sbefore) \subseteq IdsIn(etable)

\* C16: a pass removes rows only in its last step, after the iterator has
\* returned and everything pending has been flushed; as long as the pass has
\* not reached that step, and when it has failed in the iterator or in a
\* BatchUpsert, every id that was in the index when it began is still there.
C16_DeleteLast ==
    /\ []C16_NoDeletionBefore
    /\ [][~NoRowDeleted => spc = "delete" /\ pending = {} /\ spc' = "done"]_vars
    /\ [][spc = "iter" /\ spc' = "failed" => NoRowDeleted]_vars

\* A pass has upserted a document in a batch during the iteration and has
\* then removed a vanished one.
C16_Witness ==
    /\ spc = "done"
    /\ sbatch = 1
    /\ swrites["x"] = 1
    /\ "y" \in IdsIn(sbefore)
    /\ "y" \notin IdsIn(etable)

\* C17: no step of a pass removes a row whose id does not belong to the
\* producer of the pass, whatever the iterator emits; so the rows of B are
\* all there after a pass of A, and the rows of A after a pass of B.
C17_ForeignRowsStay ==
    [][\A id \in IdsIn(etable) : ~Belongs(sprod', id) => id \in IdsIn(etable')]_vars

\* After a pass of A, a pass of B has removed the vanished row of B while
\* the rows of A, which B did not emit, are still there.
C17_Witness ==
    /\ spasses = 2
    /\ sprod = "B"
    /\ spc = "done"
    /\ semitted = {}
    /\ IdsIn(sbefore) = {"x", "y", "z"}
    /\ IdsIn(etable) = {"x", "y"}

\* C18: a pass gives no id to BatchUpsert more than once, with any batch
\* size, and never an id that was emitted as Unchanged or Skip.
C18_WrittenOnce ==
    \A id \in SyncIds :
        /\ swrites[id] <= 1
        /\ swrites[id] > 0 \/ id \in IdsIn(pending)
              => Decision(id, "Upsert", MaxCmp, 2) \in semitted

\* A pass with batch size 1 has written two documents in two batches, and
\* has been given an Unchanged and no Skip.
C18_Witness ==
    /\ sbatch = 1
    /\ swrites["x"] = 1
    /\ swrites["z"] = 1
    /\ Decision("y", "Unchanged", 0, 0) \in semitted
    /\ swrites["y"] = 0
    /\ spc = "done"

(***************************************************************************)
(* Part XI: one SQLite database that engines are opened on one after the   *)
(* other, with the meta table and the virtual tables bootstrap manages.    *)
(* A row is [id, vals]; the engine keeps one row per id (Part VIII).       *)
(***************************************************************************)
MaxOpens == 3

tokenizerOptions == "porter unicode61 remove_diacritics 1"

Column(name, unindexed) == [Name |-> name, Unindexed |-> unindexed, Weight |-> 0]
ColumnLists == {<<>>,
                <<Column("body", FALSE)>>,
                <<Column("body", TRUE)>>,
                <<Column("body", FALSE), Column("title", FALSE)>>}
TableNames == {"docs", "other"}
Config(table, columns) ==
    [BaseDir |-> "dir", DBFileName |-> "fts.sqlite", Table |-> table, Columns |-> columns]
Configs == {Config(t, cols) : t \in TableNames, cols \in ColumnLists}
NoConfig == Config("", <<>>)

Words == {"hello"}
XIds == {"x", "y"}
NamesOf(columns) == {columns[k].Name : k \in 1..Len(columns)}

\* validateConfig, for the fields the model varies.
validateConfig(c) == IF Len(c.Columns) = 0 THEN "need >=1 column" ELSE "none"

NoHash == <<>>

\* schemaChecksum with the table name alone.
ChecksumOfTable(cfg) == <<tokenizerOptions, cfg.Table>>

\* schemaChecksum: SHA-256 over the tokenizer options and the JSON encoding of
\* the whole Config; two configurations have one digest only if they are equal.
schemaChecksum(cfg) == <<tokenizerOptions, cfg>>

NoTable == [exists |-> FALSE, cols |-> <<>>, rows |-> {}]

\* bootstrap: [meta, tables] after it has run for cfg on a database.
bootstrap(meta, tables, cfg) ==
    LET hsh == schemaChecksum(cfg)
        stored == meta
        t == cfg.Table
        \* DELETE FROM t (its error, when t does not exist, is dropped)
        deleted == IF stored # NoHash /\ tables[t].exists
                   THEN [tables EXCEPT ![t].rows = {}] ELSE tables
        \* DROP TABLE IF EXISTS t
        dropped == [deleted EXCEPT ![t] = NoTable]
        \* CREATE VIRTUAL TABLE IF NOT EXISTS t
        created == [dropped EXCEPT ![t] = [exists |-> TRUE, cols |-> cfg.Columns, rows |-> {}]]
    IN  IF stored # hsh
        THEN [meta |-> hsh, tables |-> created]
        ELSE [meta |-> meta, tables |-> tables]

\* internalUpsert: the row written for id; a column vals lacks is stored as "".
XRow(cfg, id, vals) ==
    [id |-> id,
     vals |-> [c \in NamesOf(cfg.Columns) |-> IF c \in DOMAIN vals THEN vals[c] ELSE ""]]

\* IsEmpty and Search of the open engine.
IsEmpty(tables, cfg) == tables[cfg.Table].rows = {}
Indexed(cfg) == {cfg.Columns[k].Name : k \in {j \in 1..Len(cfg.Columns) : ~cfg.Columns[j].Unindexed}}
XSearch(tables, cfg, query) ==
    {r \in tables[cfg.Table].rows : \E c \in Indexed(cfg) : r.vals[c] = query}

NewEngine(cfg) ==
    /\ xcfg = NoConfig
    /\ xopens < MaxOpens
    /\ xopens' = xopens + 1
    /\ IF validateConfig(cfg) # "none"
       THEN /\ xerr' = validateConfig(cfg)
            /\ UNCHANGED <<xmeta, xtables, xcfg, xphase, xprev, xseen>>
       ELSE LET b == bootstrap(xmeta, xtables, cfg)
            IN  /\ xmeta' = b.meta
                /\ xtables' = b.tables
                /\ xcfg' = cfg
                /\ xerr' = "none"
                /\ xphase' = "opened"
                /\ xseen' = IF xprev.rows = {} THEN xseen
                            ELSE IF cfg.Columns # xprev.cfg.Columns THEN xseen \cup {"changed"}
                            ELSE IF cfg = xprev.cfg THEN xseen \cup {"unchanged"}
                            ELSE xseen
                /\ UNCHANGED xprev
    /\ UNCHANGED nonSchemaVars

XUpsert(id, vals) ==
    /\ xcfg # NoConfig
    /\ xtables' = [xtables EXCEPT ![xcfg.Table].rows =
                      {r \in @ : r.id # id} \cup {XRow(xcfg, id, vals)}]
    /\ xerr' = "none"
    /\ xphase' = "used"
    /\ UNCHANGED <<xmeta, xcfg, xprev, xseen, xopens>>
    /\ UNCHANGED nonSchemaVars

XClose ==
    /\ xcfg # NoConfig
    /\ xprev' = [cfg |-> xcfg, rows |-> xtables[xcfg.Table].rows]
    /\ xcfg' = NoConfig
    /\ xerr' = "none"
    /\ xphase' = "closed"
    /\ UNCHANGED <<xmeta, xtables, xseen, xopens>>
    /\ UNCHANGED nonSchemaVars

InitSchema ==
    /\ xmeta = NoHash
    /\ xtables = [t \in TableNames |-> NoTable]
    /\ xcfg = NoConfig
    /\ xerr = "none"
    /\ xphase = "closed"
    /\ xprev = [cfg |-> NoConfig, rows |-> {}]
    /\ xseen = {}
    /\ xopens = 0

NextSchema ==
    \/ \E cfg \in Configs : NewEngine(cfg)
    \/ \E id \in XIds, cols \in {{}, {"body"}, {"body", "title"}} :
          \E vals \in [cols -> Words] : XUpsert(id, vals)
    \/ XClose

\* The engine has just been opened after another engine was closed.
Reopened == xphase = "opened" /\ xprev.cfg # NoConfig

\* C21: after a reopening with another column list the engine sees no row
\* (IsEmpty is true and no search has a hit), and after a reopening with the
\* configuration of the engine closed before it sees the rows that engine saw.
C21_SchemaRebuild ==
    Reopened =>
        /\ xcfg.Columns # xprev.cfg.Columns =>
              /\ IsEmpty(xtables, xcfg)
              /\ \A q \in Words : XSearch(xtables, xcfg, q) = {}
        /\ xcfg = xprev.cfg =>
              /\ xtables[xcfg.Table].rows = xprev.rows
              /\ \A r \in xprev.rows : \A c \in Indexed(xcfg) :
                    r.vals[c] \in Words => r \in XSearch(xtables, xcfg, r.vals[c])

\* A reopening with the same configuration that finds the rows, in a run that before
\* lost rows to a reopening with another column list.
C21_Witness ==
    /\ Reopened
    /\ xcfg = xprev.cfg
    /\ xprev.rows # {}
    /\ ~IsEmpty(xtables, xcfg)
    /\ "changed" \in xseen

(***************************************************************************)
(* Part XII: goroutines calling Flush, SetKey, DeleteFile and              *)
(* GetAll(forceFetch) on one store, nothing else touching the file.  Flush *)
(* runs flushUnlocked under a read lock, so that its file-system calls     *)
(* interleave with those of other Flush calls; an operation that holds the *)
(* write lock is one step.  A file is identified by its inode.             *)
(***************************************************************************)
MaxFIno == 4

FlushGoroutines == {"g1", "g2"}
FlushOperations == {"Flush", "SetKey", "DeleteFile", "GetAll"}

\* store.mu.RLock() and store.mu.Lock() can return.
CanRLock == fmu.w = "none"
CanWLock == fmu.w = "none" /\ fmu.r = {}

\* The optimistic check of flushUnlocked: ErrFileConflict when a snapshot is
\* remembered and the file is gone or is another file.
CheckFails(cur, last) == last # 0 /\ cur # last

FReturn(t, r) ==
    /\ fpc' = [fpc EXCEPT ![t] = "idle"]
    /\ fres' = [fres EXCEPT ![t] = r]

\* Flush: RLock, and flushUnlocked up to its check.
FFlushCheck(t) ==
    /\ fpc[t] = "idle"
    /\ CanRLock
    /\ fop' = [fop EXCEPT ![t] = "Flush"]
    /\ IF CheckFails(ffile, flast)
       THEN FReturn(t, "conflict") /\ UNCHANGED fmu
       ELSE /\ fmu' = [fmu EXCEPT !.r = @ \cup {t}]
            /\ fpc' = [fpc EXCEPT ![t] = "write"]
            /\ fres' = [fres EXCEPT ![t] = "pending"]
    /\ UNCHANGED <<ffile, ftmp, flast, freload, fnextIno>>
    /\ UNCHANGED nonFlushVars

\* os.Create of the temp file and Encode into it.
FFlushWrite(t) ==
    /\ fpc[t] = "write"
    /\ fnextIno < MaxFIno
    /\ ftmp' = [ftmp EXCEPT ![t] = fnextIno + 1]
    /\ fnextIno' = fnextIno + 1
    /\ fpc' = [fpc EXCEPT ![t] = "rename"]
    /\ UNCHANGED <<fmu, fop, fres, ffile, flast, freload>>
    /\ UNCHANGED nonFlushVars

\* os.Rename of the temp file onto the file.
FFlushRename(t) ==
    /\ fpc[t] = "rename"
    /\ ffile' = ftmp[t]
    /\ ftmp' = [ftmp EXCEPT ![t] = 0]
    /\ fpc' = [fpc EXCEPT ![t] = "stat"]
    /\ UNCHANGED <<fmu, fop, fres, flast, freload, fnextIno>>
    /\ UNCHANGED nonFlushVars

\* rememberStat, and RUnlock.
FFlushStat(t) ==
    /\ fpc[t] = "stat"
    /\ flast' = ffile
    /\ fmu' = [fmu EXCEPT !.r = @ \ {t}]
    /\ FReturn(t, "ok")
    /\ UNCHANGED <<fop, ffile, ftmp, freload, fnextIno>>
    /\ UNCHANGED nonFlushVars

\* SetKey with autoFlush on: Lock, the mutation, the whole of flushUnlocked, Unlock.
FSetKey(t) ==
    /\ fpc[t] = "idle"
    /\ CanWLock
    /\ fop' = [fop EXCEPT ![t] = "SetKey"]
    /\ IF CheckFails(ffile, flast)
       THEN FReturn(t, "conflict") /\ UNCHANGED <<ffile, flast, fnextIno>>
       ELSE /\ fnextIno < MaxFIno
            /\ ffile' = fnextIno + 1
            /\ flast' = fnextIno + 1
            /\ fnextIno' = fnextIno + 1
            /\ FReturn(t, "ok")
    /\ UNCHANGED <<fmu, ftmp, freload>>
    /\ UNCHANGED nonFlushVars

\* DeleteFile: Lock, the check against a file that exists, os.Remove, Unlock.
FDeleteFile(t) ==
    /\ fpc[t] = "idle"
    /\ CanWLock
    /\ fop' = [fop EXCEPT ![t] = "DeleteFile"]
    /\ IF ffile # 0 /\ CheckFails(ffile, flast)
       THEN FReturn(t, "conflict") /\ UNCHANGED <<ffile, flast>>
       ELSE /\ ffile' = 0
            /\ flast' = 0
            /\ FReturn(t, "ok")
    /\ UNCHANGED <<fmu, ftmp, freload, fnextIno>>
    /\ UNCHANGED nonFlushVars

\* GetAll(forceFetch): os.Stat and the comparison with store.lastStat, made
\* without a lock.
FGetAllStat(t) ==
    /\ fpc[t] = "idle"
    /\ fop' = [fop EXCEPT ![t] = "GetAll"]
    /\ IF ffile = 0
       THEN FReturn(t, "error") /\ UNCHANGED freload
       ELSE /\ freload' = [freload EXCEPT ![t] = ffile # flast]
            /\ fpc' = [fpc EXCEPT ![t] = "load"]
            /\ fres' = [fres EXCEPT ![t] = "pending"]
    /\ UNCHANGED <<fmu, ffile, ftmp, flast, fnextIno>>
    /\ UNCHANGED nonFlushVars

\* load under the write lock when the file had changed, then the copy under
\* a read lock.
FGetAllLoad(t) ==
    /\ fpc[t] = "load"
    /\ IF freload[t]
       THEN /\ CanWLock
            /\ IF ffile = 0
               THEN FReturn(t, "error") /\ UNCHANGED flast
               ELSE FReturn(t, "ok") /\ flast' = ffile
       ELSE /\ CanRLock
            /\ FReturn(t, "ok")
            /\ UNCHANGED flast
    /\ freload' = [freload EXCEPT ![t] = FALSE]
    /\ UNCHANGED <<fmu, fop, ffile, ftmp, fnextIno>>
    /\ UNCHANGED nonFlushVars

\* The store as NewMapFileStore has returned it.
InitFlush ==
    /\ fmu = [w |-> "none", r |-> {}]
    /\ fpc = [t \in FlushGoroutines |-> "idle"]
    /\ fop = [t \in FlushGoroutines |-> "none"]
    /\ fres = [t \in FlushGoroutines |-> "none"]
    /\ ffile = 1
    /\ ftmp = [t \in FlushGoroutines |-> 0]
    /\ flast = 1
    /\ freload = [t \in FlushGoroutines |-> FALSE]
    /\ fnextIno = 1

NextFlush ==
    \E t \in FlushGoroutines :
        \/ FFlushCheck(t)
        \/ FFlushWrite(t)
        \/ FFlushRename(t)
        \/ FFlushStat(t)
        \/ FSetKey(t)
        \/ FDeleteFile(t)
        \/ FGetAllStat(t)
        \/ FGetAllLoad(t)

\* C30: with no other store or process touching the file, no operation of
\* the store returns FileConflict, whatever calls the goroutines make at the
\* same time.
C30_NoConflict == \A t \in FlushGoroutines : fres[t] # "conflict"

\* The part of C30 that holds: only Flush returns FileConflict, and an
\* operation that takes the write lock finds the file the store remembers.
C30_OnlyFlushConflicts ==
    /\ \A t \in FlushGoroutines : fres[t] = "conflict" => fop[t] = "Flush"
    /\ fmu.r = {} => (flast = 0 \/ flast = ffile)

\* The goroutines inside the flushUnlocked of a Flush call: past the check, before
\* rememberStat has returned.
InFlush == {t \in FlushGoroutines : fpc[t] \in {"write", "rename", "stat"}}

\* The step is the copy of store.data that GetAll makes under its read lock.
GetAllReads(t) == fpc[t] = "load" /\ ~freload[t] /\ fpc'[t] = "idle"

\* The step is made under the write lock: SetKey, DeleteFile, or the load of
\* GetAll(forceFetch).
WriterStep(t) ==
    /\ \A u \in FlushGoroutines \ {t} :
          fpc'[u] = fpc[u] /\ fop'[u] = fop[u] /\ fres'[u] = fres[u]
    /\ \/ fpc[t] = "idle" /\ fop'[t] \in {"SetKey", "DeleteFile"}
       \/ fpc[t] = "load" /\ freload[t] /\ fpc'[t] = "idle"

\* C32: Flush holds the store's lock exclusively: no two Flush calls are in their
\* check, write and snapshot-update steps at the same time, and no GetAll reads
\* while a Flush is on its way to update the snapshot.
C32_FlushExclusive ==
    /\ [](Cardinality(InFlush) <= 1)
    /\ [][\A t \in FlushGoroutines : GetAllReads(t) => InFlush = {}]_vars

\* The part of C32 that holds: Flush holds the read lock from its check to the
\* update of the snapshot, so that nothing that takes the write lock runs meanwhile.
C32_FlushExcludesWriters ==
    /\ [](InFlush = fmu.r)
    /\ [][\A t \in FlushGoroutines : WriterStep(t) => InFlush = {}]_vars

(***************************************************************************)
(* Part XIII: goroutines calling the mutating operations of one store      *)
(* whose listener reads from the store that delivered the event.  The      *)
(* listener runs on the goroutine of the mutating call; sync.RWMutex is    *)
(* not reentrant, so RLock blocks while the write lock is held, also when  *)
(* the holder is the calling goroutine.                                    *)
(***************************************************************************)
MaxEventCalls == 2

EventGoroutines == {"g1", "g2"}
Mutations == {"SetKey", "DeleteKey", "SetAll", "Reset", "DeleteFile"}
ListenerReads == {"GetAll", "GetKey"}

\* store.mu.Lock() and store.mu.RLock() can return.
VCanLock == vmu.w = "none" /\ vmu.r = {}
VCanRLock == vmu.w = "none"

\* DeleteFile calls fireEvent in its body, before the deferred Unlock runs; the
\* other operations call it after setKey, deleteKey, setAll or reset has returned.
FiresUnlocked(o) == o # "DeleteFile"

\* The call of operation o: store.mu.Lock() in setKey, deleteKey, setAll, reset or
\* DeleteFile.
VLock(t, o) ==
    /\ vpc[t] = "idle"
    /\ vcalls[t] < MaxEventCalls
    /\ VCanLock
    /\ vmu' = [vmu EXCEPT !.w = t]
    /\ vop' = [vop EXCEPT ![t] = o]
    /\ vpc' = [vpc EXCEPT ![t] = "locked"]
    /\ vcalls' = [vcalls EXCEPT ![t] = @ + 1]
    /\ UNCHANGED <<vlistener, vevents>>
    /\ UNCHANGED nonEventVars

\* The work under the lock: the mutation and the flush, or the check and os.Remove.
\* When it fails the lock is released and the error returned, with no event.  When
\* it succeeds the operation goes on to fireEvent, the lock being released first
\* unless the operation is DeleteFile.
VMutate(t, ok) ==
    /\ vpc[t] = "locked"
    /\ IF ~ok
       THEN /\ vmu' = [vmu EXCEPT !.w = "none"]
            /\ vpc' = [vpc EXCEPT ![t] = "idle"]
       ELSE /\ vmu' = IF FiresUnlocked(vop[t]) THEN [vmu EXCEPT !.w = "none"] ELSE vmu
            /\ vpc' = [vpc EXCEPT ![t] = "fire"]
    /\ UNCHANGED <<vop, vlistener, vevents, vcalls>>
    /\ UNCHANGED nonEventVars

\* fireEvent calls the listener, which begins its read with store.mu.RLock(), or
\* returns at once.
VFireEvent(t) ==
    /\ vpc[t] = "fire"
    /\ IF vlistener \in ListenerReads
       THEN /\ VCanRLock
            /\ vmu' = [vmu EXCEPT !.r = @ \cup {t}]
            /\ vpc' = [vpc EXCEPT ![t] = "reading"]
            /\ UNCHANGED vevents
       ELSE /\ vpc' = [vpc EXCEPT ![t] = "fired"]
            /\ vevents' = [vevents EXCEPT ![t] = @ + 1]
            /\ UNCHANGED vmu
    /\ UNCHANGED <<vop, vlistener, vcalls>>
    /\ UNCHANGED nonEventVars

\* The read of the listener returns: the copy and the deferred RUnlock.
VListenerReturns(t) ==
    /\ vpc[t] = "reading"
    /\ vmu' = [vmu EXCEPT !.r = @ \ {t}]
    /\ vpc' = [vpc EXCEPT ![t] = "fired"]
    /\ vevents' = [vevents EXCEPT ![t] = @ + 1]
    /\ UNCHANGED <<vop, vlistener, vcalls>>
    /\ UNCHANGED nonEventVars

\* fireEvent has returned and the operation returns nil; the deferred Unlock of
\* DeleteFile runs.
VReturn(t) ==
    /\ vpc[t] = "fired"
    /\ vmu' = IF vmu.w = t THEN [vmu EXCEPT !.w = "none"] ELSE vmu
    /\ vpc' = [vpc EXCEPT ![t] = "idle"]
    /\ UNCHANGED <<vop, vlistener, vevents, vcalls>>
    /\ UNCHANGED nonEventVars

VStep(t) ==
    \/ \E o \in Mutations : VLock(t, o)
    \/ \E ok \in BOOLEAN : VMutate(t, ok)
    \/ VFireEvent(t)
    \/ VListenerReturns(t)
    \/ VReturn(t)

InitEvent ==
    /\ vmu = [w |-> "none", r |-> {}]
    /\ vpc = [t \in EventGoroutines |-> "idle"]
    /\ vop = [t \in EventGoroutines |-> "none"]
    /\ vlistener \in {"nothing"} \cup ListenerReads
    /\ vevents = [t \in EventGoroutines |-> 0]
    /\ vcalls = [t \in EventGoroutines |-> 0]

ParkedEvent ==
    /\ vmu = [w |-> "none", r |-> {}]
    /\ vpc = [t \in EventGoroutines |-> "idle"]
    /\ vop = [t \in EventGoroutines |-> "none"]
    /\ vlistener = "nothing"
    /\ vevents = [t \in EventGoroutines |-> 0]
    /\ vcalls = [t \in EventGoroutines |-> 0]

NextEvent == \E t \in EventGoroutines : VStep(t)

\* A goroutine that can take a step is scheduled in the end.
FairEvent == \A t \in EventGoroutines : WF_vars(VStep(t))

\* The listener is running, or about to run, on goroutine t.
InListener(t) == vpc[t] \in {"fire", "reading"}

\* C33: a listener may call GetAll or GetKey on the store that delivered the event,
\* for every kind of event including deleteFile, and the call returns: listeners
\* are never invoked while the store's lock is held, and the mutating call always
\* terminates.
C33_ListenerMayRead ==
    /\ [](\A t \in EventGoroutines : InListener(t) => vmu.w # t)
    /\ \A t \in EventGoroutines : (vpc[t] # "idle") ~> (vpc[t] = "idle")

\* The part of C33 that holds: the listener of SetKey, DeleteKey, SetAll and Reset
\* is invoked after the lock was released, and while no DeleteFile is called every
\* call returns, whatever the listener reads.
C33_UnlockedExceptDeleteFile ==
    /\ [](\A t \in EventGoroutines :
            (InListener(t) /\ vop[t] # "DeleteFile") => vmu.w # t)
    /\ \/ <>(\E t \in EventGoroutines : vop[t] = "DeleteFile")
       \/ \A t \in EventGoroutines : (vpc[t] # "idle") ~> (vpc[t] = "idle")

\* The part of C33 that holds: with a listener that does not call the store, every
\* call returns.
C33_SilentListenerReturns ==
    \/ vlistener # "nothing"
    \/ \A t \in EventGoroutines : (vpc[t] # "idle") ~> (vpc[t] = "idle")

(***************************************************************************)
(* Part XIV: one store (autoFlush off) and a caller that passes a value of *)
(* its own to SetKey and SetAll and goes on changing that value.  Nothing  *)
(* is collected: an address stands for the same object throughout.         *)
(***************************************************************************)
MaxCopyAddr == 5

\* The values the caller has built: a number, a flat map, and maps nested one and
\* two levels deep, laid out on the heap behind the store's empty document.
CallerValues ==
    { [h |-> <<EmptyMap>>, val |-> Num(1)],
      [h |-> <<EmptyMap, [b |-> Num(1)]>>, val |-> Ref(2)],
      [h |-> <<EmptyMap, [a |-> Ref(3)], [b |-> Num(1)]>>, val |-> Ref(2)],
      [h |-> <<EmptyMap, [a |-> Ref(3), b |-> Num(1)], [b |-> Ref(4)], [a |-> Num(1)]>>,
       val |-> Ref(2)] }

CopyPaths == HPaths \cup {<<"a", "b", "a">>}

\* setAll: store.data = make(map[string]any); maps.Copy(store.data, data).
SetAllCopy(h, a) == ShallowCopy(h, a)

\* SetKey(keys, value) with the caller's value.
WSetKey(keys) ==
    LET set == SetValueAtPath(wheap, Ref(wroot), keys, warg)
    IN /\ Len(set.h) <= MaxCopyAddr
       /\ wheap' = set.h
       /\ UNCHANGED <<wroot, warg>>
       /\ UNCHANGED nonCopyVars

\* SetAll(data) with the caller's value, which is a map.
WSetAll ==
    /\ warg.ref
    /\ LET set == SetAllCopy(wheap, warg.v)
       IN /\ Len(set.h) <= MaxCopyAddr
          /\ wheap' = set.h
          /\ wroot' = set.val.v
    /\ UNCHANGED warg
    /\ UNCHANGED nonCopyVars

\* The caller assigns to an entry of its value, or of a map nested in it.
WCallerAssign(keys, n) ==
    LET nav == NavigateToParentMap(wheap, warg, keys, FALSE)
    IN /\ nav.err = "none"
       /\ wheap' = [wheap EXCEPT ![nav.parentMap] = Put(@, nav.lastKey, Num(n))]
       /\ UNCHANGED <<wroot, warg>>
       /\ UNCHANGED nonCopyVars

\* The caller deletes an entry of its value, or of a map nested in it.
WCallerDelete(keys) ==
    LET nav == NavigateToParentMap(wheap, warg, keys, FALSE)
    IN /\ nav.err = "none"
       /\ nav.lastKey \in DOMAIN wheap[nav.parentMap]
       /\ wheap' = [wheap EXCEPT ![nav.parentMap] = Del(@, nav.lastKey)]
       /\ UNCHANGED <<wroot, warg>>
       /\ UNCHANGED nonCopyVars

InitCopy ==
    \E c \in CallerValues :
        /\ wheap = c.h
        /\ wroot = 1
        /\ warg = c.val

ParkedCopy ==
    /\ wheap = <<EmptyMap>>
    /\ wroot = 1
    /\ warg = Num(1)

NextCopy ==
    \/ \E keys \in HPaths : WSetKey(keys)
    \/ WSetAll
    \/ \E keys \in CopyPaths, n \in {2} : WCallerAssign(keys, n)
    \/ \E keys \in CopyPaths : WCallerDelete(keys)

\* The step is a change the caller makes to its value.
WCallerStep ==
    \E keys \in CopyPaths : (\E n \in {2} : WCallerAssign(keys, n)) \/ WCallerDelete(keys)

\* The objects that both the store's document and the caller's value reach.
SharedObjects(h, r, v) == Reach(h, {r}) \cap (IF v.ref THEN Reach(h, {v.v}) ELSE {})

\* C35: a value passed to SetKey and a document passed to SetAll are stored as
\* deep copies: a change the caller makes to its value afterwards, at any nesting
\* depth, changes nothing of the store's document.
C35_ArgumentsAreCopied ==
    [][WCallerStep => Doc(wheap', wroot') = Doc(wheap, wroot)]_vars

\* The part of C35 that holds: SetKey stores a deep copy (a store that shares no
\* object with the caller's value shares none after SetKey), and after SetAll a
\* change to an entry of the caller's top-level map leaves the store's document as
\* it is.
C35_SetKeyCopiesDeeply ==
    [][/\ ((\E keys \in HPaths : WSetKey(keys)) /\ SharedObjects(wheap, wroot, warg) = {}) =>
              SharedObjects(wheap', wroot', warg') = {}
       /\ (\E keys \in HKeys :
              (\E n \in {2} : WCallerAssign(<<keys>>, n)) \/ WCallerDelete(<<keys>>)) =>
              Doc(wheap', wroot') = Doc(wheap, wroot)]_vars

(***************************************************************************)
(* Part XV: SetKey(keys, 1) on a store (autoFlush off) that holds any of a *)
(* set of documents, documents with the empty string as a key included,    *)
(* for every path of up to MaxPathLen keys.                                *)
(***************************************************************************)
MaxPathLen == 3

ZKeys == {"", "a", "b"}
ZPaths == UNION {[1 .. n -> ZKeys] : n \in 0 .. MaxPathLen}

\* The documents {}, {"a": 1}, {"a": {"b": 1}}, {"": {}}, {"a": {"": {}}} and {"": 1}.
ZDocs ==
    { <<EmptyMap>>,
      <<[a |-> Num(1)]>>,
      <<[a |-> Ref(2)], [b |-> Num(1)]>>,
      <<Put(EmptyMap, "", Ref(2)), EmptyMap>>,
      <<[a |-> Ref(2)], Put(EmptyMap, "", Ref(3)), EmptyMap>>,
      <<Put(EmptyMap, "", Num(1))>> }

\* setKey with autoFlush off: the check for the empty path, then SetValueAtPath on
\* store.data.
setKey(h, keys, value) ==
    IF Len(keys) = 0
    THEN [err |-> "empty", h |-> h]
    ELSE SetValueAtPath(h, Ref(1), keys, value)

ZSetKey ==
    /\ zerr = "pending"
    /\ LET set == setKey(zheap, zkeys, Num(1))
       IN /\ zheap' = set.h
          /\ zerr' = set.err
    /\ UNCHANGED <<zin, zkeys>>
    /\ UNCHANGED nonPathVars

InitPath ==
    /\ zheap \in ZDocs
    /\ zin = zheap
    /\ zkeys \in ZPaths
    /\ zerr = "pending"

ParkedPath ==
    /\ zheap = <<EmptyMap>>
    /\ zin = zheap
    /\ zkeys = <<>>
    /\ zerr = "pending"

NextPath == ZSetKey

\* The document before the call has an entry at the first i keys of the path, and
\* the entry is not a mapping.
NotMapAt(i) == \E e \in Doc(zin, 1) : e.p = SubSeq(zkeys, 1, i) /\ e.n # -1
\* The document before the call has no entry at the first i keys of the path.
MissingAt(i) == \A e \in Doc(zin, 1) : e.p # SubSeq(zkeys, 1, i)

Intermediate == 1 .. Len(zkeys) - 1

\* After a successful call the value is at the path, below mappings.
ValueStored ==
    /\ [p |-> zkeys, n |-> 1] \in Doc(zheap, 1)
    /\ \A i \in Intermediate : [p |-> SubSeq(zkeys, 1, i), n |-> -1] \in Doc(zheap, 1)

\* C36: SetKey fails whenever a key of the path is the empty string, whatever the
\* document contains, and fails for the empty path and when an existing
\* intermediate value is not a mapping; in every other case it succeeds and creates
\* the missing intermediate mappings.
C36_SetKeyErrors ==
    zerr # "pending" =>
        /\ zerr # "none" <=>
              \/ zkeys = <<>>
              \/ \E i \in 1 .. Len(zkeys) : zkeys[i] = ""
              \/ \E i \in Intermediate : NotMapAt(i)
        /\ zerr = "none" => ValueStored

\* The part of C36 that holds: SetKey fails exactly for the empty path, for a path
\* whose last key is empty, for an empty intermediate key that the mapping it is
\* looked up in does not hold, and for an intermediate value that is not a mapping;
\* otherwise the value is stored and the missing mappings are created.
C36_EmptyKeyMustExist ==
    zerr # "pending" =>
        /\ zerr # "none" <=>
              \/ zkeys = <<>>
              \/ zkeys[Len(zkeys)] = ""
              \/ \E i \in Intermediate : zkeys[i] = "" /\ MissingAt(i)
              \/ \E i \in Intermediate : NotMapAt(i)
        /\ zerr = "none" => ValueStored

(***************************************************************************)
(* Part XVI: passes of SyncDirToFTS over directories that lie side by side *)
(* and share one index.  A path is the sequence of its characters, so that *)
(* strings.HasPrefix is the prefix relation on sequences; a pass is one    *)
(* step, with processFile deciding freely for every file of the walk.      *)
(***************************************************************************)
MaxWalkPasses == 2

Slash == "/"
\* The directories "a", "ab" and "b" and the files "a/f", "a/g", "ab/f" and "b/f".
BaseDirs == {<<"a">>, <<"a", "b">>, <<"b">>}
AllFiles == {<<"a", Slash, "f">>, <<"a", Slash, "g">>, <<"a", "b", Slash, "f">>,
             <<"b", Slash, "f">>}

\* strings.HasPrefix(id, baseDir)
StringsHasPrefix(s, prefix) == IsPrefix(prefix, s)

\* A test that takes baseDir as a directory: the id continues with a separator.
InTreeOf(id, baseDir) == IsPrefix(baseDir \o <<Slash>>, id)

\* belongs of SyncDirToFTS
belongs(id, baseDir) == StringsHasPrefix(id, baseDir)

\* filepath.WalkDir(baseDir, ...): the files in the tree of baseDir.
WalkDir(baseDir) == {p \in qfiles : InTreeOf(p, baseDir)}

\* SyncDirToFTS(baseDir) that returns nil: the ids of the index are read, the walk
\* emits a decision for every file (Skip for those in skip, Unchanged for those in
\* unchanged, otherwise an upsert with the path as id), the pending documents
\* are written, and the ids that belong and were not seen are deleted.
SyncDirToFTS(baseDir, skip, unchanged) ==
    LET existingIds == qindex
        seen == WalkDir(baseDir) \ skip
        upserted == seen \ unchanged
        toDelete == {id \in existingIds : belongs(id, baseDir) /\ id \notin seen}
    IN /\ qpasses < MaxWalkPasses
       /\ skip \subseteq WalkDir(baseDir)
       /\ unchanged \subseteq WalkDir(baseDir) \ skip
       /\ qindex' = (existingIds \cup upserted) \ toDelete
       /\ qbase' = baseDir
       /\ qbefore' = qindex
       /\ qpasses' = qpasses + 1
       /\ UNCHANGED qfiles
       /\ UNCHANGED nonWalkVars

\* Files are created and removed between the passes.
WalkFilesChange(fs) ==
    /\ qfiles' = fs
    /\ fs # qfiles
    /\ UNCHANGED <<qindex, qbase, qbefore, qpasses>>
    /\ UNCHANGED nonWalkVars

InitWalk ==
    /\ qfiles \in SUBSET AllFiles
    /\ qindex = {}
    /\ qbase = <<"a">>
    /\ qbefore = {}
    /\ qpasses = 0

ParkedWalk ==
    /\ qfiles = {}
    /\ qindex = {}
    /\ qbase = <<"a">>
    /\ qbefore = {}
    /\ qpasses = 0

NextWalk ==
    \/ \E baseDir \in BaseDirs, skip, unchanged \in SUBSET AllFiles :
          SyncDirToFTS(baseDir, skip, unchanged)
    \/ \E fs \in SUBSET AllFiles : WalkFilesChange(fs)

\* The step is a pass of SyncDirToFTS.
WalkPass == qpasses' = qpasses + 1

\* C39: SyncDirToFTS on a base directory never deletes a row whose id is a path
\* outside the tree of that directory, files of a sibling directory whose name
\* begins with the name of the base directory included.
C39_OutsideRowsStay ==
    [][WalkPass =>
          \A id \in qindex : ~InTreeOf(id, qbase') => id \in qindex']_vars

\* The part of C39 that holds: a pass deletes no row whose id does not begin with
\* the string baseDir, whatever the walk decides.
C39_NonPrefixRowsStay ==
    [][WalkPass =>
          \A id \in qindex : ~StringsHasPrefix(id, qbase') => id \in qindex']_vars

(***************************************************************************)
(* Part XVII: what Engine.Search gives to MATCH.  A string is the sequence *)
(* of its characters; a character has a class (unicode.IsLetter,           *)
(* unicode.IsNumber, unicode.IsDigit) and a length in bytes of UTF-8.      *)
(***************************************************************************)
MaxQueryLen == 4

\* "a": a letter of one byte; "E": stands for U+00E9, a letter of two bytes;
\* "7": a digit.
QueryChars == {"a", "E", "7", " ", "*"}
IsLetter(r) == r \in {"a", "E"}
IsNumber(r) == r = "7"
IsDigit(r) == r = "7"
Utf8Len(r) == IF r = "E" THEN 2 ELSE 1

RECURSIVE ByteLen(_)
\* len(t) of a Go string
ByteLen(t) == IF t = <<>> THEN 0 ELSE Utf8Len(Head(t)) + ByteLen(Tail(t))

Queries == UNION {[1..n -> QueryChars] : n \in 0..MaxQueryLen}

Quote == "\""
\* quote(id): tokens hold letters and numbers only, so nothing is doubled.
quote(id) == <<Quote>> \o id \o <<Quote>>

OrSeparator == <<" ", "O", "R", " ">>

RECURSIVE StringsJoin(_, _)
StringsJoin(elems, sep) ==
    IF elems = <<>> THEN <<>>
    ELSE IF Len(elems) = 1 THEN elems[1]
    ELSE elems[1] \o sep \o StringsJoin(Tail(elems), sep)

\* flush of cleanQueryWithOr
FlushToken(buf, tokens) == IF buf = <<>> THEN tokens ELSE Append(tokens, buf)

RECURSIVE ScanQuery(_, _, _)
\* The loop over the runes of q, and the final flush.
ScanQuery(q, buf, tokens) ==
    IF q = <<>> THEN FlushToken(buf, tokens)
    ELSE IF IsLetter(Head(q)) \/ IsNumber(Head(q))
         THEN ScanQuery(Tail(q), Append(buf, Head(q)), tokens)
         ELSE ScanQuery(Tail(q), <<>>, FlushToken(buf, tokens))

InSeq(x, seq) == \E i \in 1..Len(seq) : seq[i] = x

\* len(t) == 1 && !unicode.IsDigit(rune(t[0])): len counts bytes.
SkippedToken(t) == ByteLen(t) = 1 /\ ~IsDigit(t[1])

RECURSIVE DedupeTokens(_, _)
\* The loop over tokens: out holds the tokens kept so far (seen has the same
\* members).
DedupeTokens(tokens, out) ==
    IF tokens = <<>> THEN out
    ELSE LET t == Head(tokens)
         IN IF SkippedToken(t) \/ InSeq(t, out)
            THEN DedupeTokens(Tail(tokens), out)
            ELSE DedupeTokens(Tail(tokens), Append(out, t))

QuoteAll(out) == [i \in 1..Len(out) |-> quote(out[i])]

cleanQueryWithOr(q) ==
    LET tokens == ScanQuery(q, <<>>, <<>>)
        out == QuoteAll(DedupeTokens(tokens, <<>>))
    IN IF tokens = <<>> THEN <<>>
       ELSE IF out = <<>> THEN StringsJoin(tokens, OrSeparator)
       ELSE StringsJoin(out, OrSeparator)

\* Engine.Search(ctx, uquery, "", n) up to the statement it runs: an error for
\* the empty query, an empty result with an empty token when cleanQueryWithOr
\* returns "", otherwise the SELECT with the expression bound to MATCH.
SearchQuery ==
    LET cQ == cleanQueryWithOr(uquery)
    IN /\ uout = "none"
       /\ uexpr' = IF uquery = <<>> THEN <<>> ELSE cQ
       /\ uout' = IF uquery = <<>> THEN "error"
                  ELSE IF cQ = <<>> THEN "empty" ELSE "sql"
       /\ UNCHANGED uquery
       /\ UNCHANGED nonQueryVars

\* The caller has chosen the query; Search has not been called yet.
InitQuery ==
    /\ uquery \in Queries
    /\ uexpr = <<>>
    /\ uout = "none"

ParkedQuery ==
    /\ uquery = <<>>
    /\ uexpr = <<>>
    /\ uout = "none"

NextQuery == SearchQuery

\* The sanitizing as the documentation has it: split at every character that
\* is neither letter nor number, drop the tokens of one character that is not
\* a digit, remove duplicates, quote, join with OR.
OneNonDigit(t) == Len(t) = 1 /\ ~IsDigit(t[1])
RECURSIVE RemoveDuplicates(_)
RemoveDuplicates(seq) ==
    IF seq = <<>> THEN <<>>
    ELSE LET front == RemoveDuplicates(SubSeq(seq, 1, Len(seq) - 1))
             last == seq[Len(seq)]
         IN IF InSeq(last, front) THEN front ELSE Append(front, last)
KeptToken(t) == ~OneNonDigit(t)
SanitizedTokens(q) == RemoveDuplicates(SelectSeq(ScanQuery(q, <<>>, <<>>), KeptToken))
SanitizedQuery(q) == StringsJoin(QuoteAll(SanitizedTokens(q)), OrSeparator)

\* C40: Search builds its match expression from the query by splitting on every
\* character that is not a letter or a number, dropping every single-character
\* token that is not a digit, removing duplicates, quoting each remaining token
\* and joining them with OR; when no token remains after these steps, Search
\* returns an empty result with an empty token.
C40_MatchExpression ==
    uout # "none" =>
        IF SanitizedTokens(uquery) = <<>>
        THEN uout = "empty"
        ELSE uout = "sql" /\ uexpr = SanitizedQuery(uquery)

\* The part of C40 that holds: a query with a token of two bytes or more, or a
\* token that is one digit, is sanitized as documented, apart from tokens that
\* are one letter of several bytes, which stay; and a query that is not empty
\* and has no letter and no number gets the empty result.
SomeTokenKept(q) == \E i \in 1..Len(ScanQuery(q, <<>>, <<>>)) :
                        ~SkippedToken(ScanQuery(q, <<>>, <<>>)[i])
C40_MatchExpressionKept ==
    /\ (uout # "none" /\ SomeTokenKept(uquery) /\ \A i \in 1..Len(uquery) : Utf8Len(uquery[i]) = 1)
          => uout = "sql" /\ uexpr = SanitizedQuery(uquery)
    /\ (uout # "none" /\ uquery # <<>> /\ ScanQuery(uquery, <<>>, <<>>) = <<>>)
          => uout = "empty" /\ uexpr = <<>>
    /\ uout = "empty" => ScanQuery(uquery, <<>>, <<>>) = <<>>

(***************************************************************************)
(* Specifications.                                                         *)
(***************************************************************************)
InitSpecOCC == InitOCC /\ InitHeap /\ ParkedStore /\ InitConc /\ ParkedCodec /\ InitDir /\ ParkedList /\ InitEngine /\ ParkedPage /\ InitSync /\ InitSchema /\ InitFlush /\ ParkedEvent /\ ParkedCopy /\ ParkedPath /\ ParkedWalk /\ ParkedQuery
SpecOCC == InitSpecOCC /\ [][NextOCC]_vars

InitSpecHeap == InitHeap /\ InitOCC /\ ParkedStore /\ InitConc /\ ParkedCodec /\ InitDir /\ ParkedList /\ InitEngine /\ ParkedPage /\ InitSync /\ InitSchema /\ InitFlush /\ ParkedEvent /\ ParkedCopy /\ ParkedPath /\ ParkedWalk /\ ParkedQuery
SpecHeap == InitSpecHeap /\ [][NextHeap]_vars

InitSpecStore == InitStore /\ InitOCC /\ InitConc /\ ParkedCodec /\ InitDir /\ ParkedList /\ InitEngine /\ ParkedPage /\ InitSync /\ InitSchema /\ InitFlush /\ ParkedEvent /\ ParkedCopy /\ ParkedPath /\ ParkedWalk /\ ParkedQuery
SpecStore == InitSpecStore /\ [][NextStore]_vars

InitSpecConc == InitConc /\ InitOCC /\ InitHeap /\ ParkedStore /\ ParkedCodec /\ InitDir /\ ParkedList /\ InitEngine /\ ParkedPage /\ InitSync /\ InitSchema /\ InitFlush /\ ParkedEvent /\ ParkedCopy /\ ParkedPath /\ ParkedWalk /\ ParkedQuery
SpecConc == InitSpecConc /\ [][NextConc]_vars

InitSpecCodec == InitCodec /\ InitOCC /\ InitHeap /\ ParkedStore /\ InitConc /\ InitDir /\ ParkedList /\ InitEngine /\ ParkedPage /\ InitSync /\ InitSchema /\ InitFlush /\ ParkedEvent /\ ParkedCopy /\ ParkedPath /\ ParkedWalk /\ ParkedQuery
SpecCodec == InitSpecCodec /\ [][NextCodec]_vars

InitSpecDir == InitDir /\ InitOCC /\ InitHeap /\ ParkedStore /\ InitConc /\ ParkedCodec /\ ParkedList /\ InitEngine /\ ParkedPage /\ InitSync /\ InitSchema /\ InitFlush /\ ParkedEvent /\ ParkedCopy /\ ParkedPath /\ ParkedWalk /\ ParkedQuery
SpecDir == InitSpecDir /\ [][NextDir]_vars

InitSpecList == InitList /\ InitOCC /\ InitHeap /\ ParkedStore /\ InitConc /\ ParkedCodec /\ InitDir /\ InitEngine /\ ParkedPage /\ InitSync /\ InitSchema /\ InitFlush /\ ParkedEvent /\ ParkedCopy /\ ParkedPath /\ ParkedWalk /\ ParkedQuery
SpecList == InitSpecList /\ [][NextList]_vars

InitSpecEngine == InitEngine /\ InitOCC /\ InitHeap /\ ParkedStore /\ InitConc /\ ParkedCodec /\ InitDir /\ ParkedList /\ ParkedPage /\ InitSync /\ InitSchema /\ InitFlush /\ ParkedEvent /\ ParkedCopy /\ ParkedPath /\ ParkedWalk /\ ParkedQuery
SpecEngine == InitSpecEngine /\ [][NextEngine]_vars

InitSpecPage == InitPage /\ (\E tbl \in Tables : EngineWith(tbl)) /\ InitOCC /\ InitHeap /\ ParkedStore /\ InitConc /\ ParkedCodec /\ InitDir /\ ParkedList /\ InitSync /\ InitSchema /\ InitFlush /\ ParkedEvent /\ ParkedCopy /\ ParkedPath /\ ParkedWalk /\ ParkedQuery
SpecPage == InitSpecPage /\ [][NextPage]_vars

InitSpecSync == InitSync /\ (\E tbl \in SyncTables : EngineWith(tbl)) /\ ParkedPage /\ InitOCC /\ InitHeap /\ ParkedStore /\ InitConc /\ ParkedCodec /\ InitDir /\ ParkedList /\ InitSchema /\ InitFlush /\ ParkedEvent /\ ParkedCopy /\ ParkedPath /\ ParkedWalk /\ ParkedQuery
SpecSync == InitSpecSync /\ [][NextSync]_vars

InitSpecSchema == InitSchema /\ InitOCC /\ InitHeap /\ ParkedStore /\ InitConc /\ ParkedCodec /\ InitDir /\ ParkedList /\ InitEngine /\ ParkedPage /\ InitSync /\ InitFlush /\ ParkedEvent /\ ParkedCopy /\ ParkedPath /\ ParkedWalk /\ ParkedQuery
SpecSchema == InitSpecSchema /\ [][NextSchema]_vars

InitSpecFlush == InitFlush /\ InitOCC /\ InitHeap /\ ParkedStore /\ InitConc /\ ParkedCodec /\ InitDir /\ ParkedList /\ InitEngine /\ ParkedPage /\ InitSync /\ InitSchema /\ ParkedEvent /\ ParkedCopy /\ ParkedPath /\ ParkedWalk /\ ParkedQuery
SpecFlush == InitSpecFlush /\ [][NextFlush]_vars

InitSpecEvent == InitEvent /\ InitOCC /\ InitHeap /\ ParkedStore /\ InitConc /\ ParkedCodec /\ InitDir /\ ParkedList /\ InitEngine /\ ParkedPage /\ InitSync /\ InitSchema /\ InitFlush /\ ParkedCopy /\ ParkedPath /\ ParkedWalk /\ ParkedQuery
SpecEvent == InitSpecEvent /\ [][NextEvent]_vars /\ FairEvent

InitSpecCopy == InitCopy /\ InitOCC /\ InitHeap /\ ParkedStore /\ InitConc /\ ParkedCodec /\ InitDir /\ ParkedList /\ InitEngine /\ ParkedPage /\ InitSync /\ InitSchema /\ InitFlush /\ ParkedEvent /\ ParkedPath /\ ParkedWalk /\ ParkedQuery
SpecCopy == InitSpecCopy /\ [][NextCopy]_vars

InitSpecPath == InitPath /\ InitOCC /\ InitHeap /\ ParkedStore /\ InitConc /\ ParkedCodec /\ InitDir /\ ParkedList /\ InitEngine /\ ParkedPage /\ InitSync /\ InitSchema /\ InitFlush /\ ParkedEvent /\ ParkedCopy /\ ParkedWalk /\ ParkedQuery
SpecPath == InitSpecPath /\ [][NextPath]_vars

InitSpecWalk == InitWalk /\ InitOCC /\ InitHeap /\ ParkedStore /\ InitConc /\ ParkedCodec /\ InitDir /\ ParkedList /\ InitEngine /\ ParkedPage /\ InitSync /\ InitSchema /\ InitFlush /\ ParkedEvent /\ ParkedCopy /\ ParkedPath /\ ParkedQuery
SpecWalk == InitSpecWalk /\ [][NextWalk]_vars

InitSpecQuery == InitQuery /\ InitOCC /\ InitHeap /\ ParkedStore /\ InitConc /\ ParkedCodec /\ InitDir /\ ParkedList /\ InitEngine /\ ParkedPage /\ InitSync /\ InitSchema /\ InitFlush /\ ParkedEvent /\ ParkedCopy /\ ParkedPath /\ ParkedWalk
SpecQuery == InitSpecQuery /\ [][NextQuery]_vars

====
